---- MODULE Spec2Model ----
(***************************************************************************)
(* Recording-session lifecycle of the meeting-notes application:           *)
(*   - the session state machine of src/main/index.js                      *)
(*     (startRecording, stopRecording, processRecording),                   *)
(*   - the capture supervisor of src/main/audio-recorder.js (AudioRecorder),*)
(*   - the live transcription engine of src/main/transcription.js          *)
(*     (startRealtime, processRealtimeChunk, stopRealtime).                 *)
(* Every await of the JavaScript code is a point where another handler can  *)
(* run; an action below is the code between two awaits.                     *)
(***************************************************************************)
EXTENDS Integers, Sequences, FiniteSets, TLC

\* ---------------------------------------------------------------- bounds
MaxMeetings == 2
MaxStartCalls == 2
MaxTime == 12
MaxSubmits == 2
MaxPolls == 2
MaxNotices == 2

\* ------------------------------------------------------ program constants
NoMeeting == 0
SampleRate == 44100
ChunkSampleRate == 16000
BytesPerSample == 2
MinArtifactBytes == 1000
MinLiveBytes == 32000
MinChunkBytes == 8000
MinDeltaSeconds == 5
FallbackDuration == 60
ProbeOneDelay == 5
ProbeTwoDelay == 10
ProcessInterval == 12
MaxAttempts == 3
MinTranscriptLength == 10
LargeFileMB == 25
ChunkDuration == 600
StopTimeout == 5000
SigintDelay == 500
FlushDelay == 1000
TimerInterval == 1
NoTime == 0 - 1

Meetings == 1..MaxMeetings

VARIABLES
  \* src/main/index.js module state
  isRecording, isPaused, currentMeetingId,
  recordingStartTime, \* Date.now() of the start in seconds, NoTime when null
  pausedTime,      \* seconds the current session has spent paused so far
  notices,         \* the recording-paused / recording-resumed messages sent, in order
  updates,         \* per meeting id: the transcript-update messages sent with that id, in order
  reported,        \* the last elapsed time sent (timer-update) or returned (get-recording-status)
  pendingStarts,   \* startRecording calls suspended at `await checkMicrophonePermission()`
  pipeline,        \* per meeting: where its stopRecording / processRecording run stands
  events,          \* per meeting id: the lifecycle messages sent for it, in order
  apiKey,          \* store.get('openaiApiKey') is set
  stopReturn,      \* what the last stopRecording call to return returned: "none" | "null" | "id"
  \* MeetingDatabase
  meetings,        \* meeting id -> persisted status ("absent" before createMeeting)
  transcript,      \* meeting id -> persisted transcript: "none" | "live" | "final" | "mixed"
  \* AudioRecorder
  recording, process, outputPath,
  procState,       \* capture process spawned for a meeting: "none" | "alive" | "exited"
  stopOp,          \* the promise of the AudioRecorder.stop() call under study, with its timers
  \* file system
  wav,             \* recordings/{id}.wav: duration in seconds, -1 when the file does not exist
  webm,            \* recordings/{id}.webm: size in bytes, -1 when the file does not exist
  \* TranscriptionService
  realtimeActive, realtimeInterval, transcriptBuffer, lastProcessedDuration,
  tsCurrentMeetingId,
  schedule,        \* per startRealtime call (keyed by its meeting id): its timers
  polls,           \* processRealtimeChunk executions in flight, with their locals
  leftCopies,      \* copy_*.wav files in the temp directory whose cycle has ended
  requests,        \* per meeting: the final-transcription requests answered so far, in order
  largeFile,       \* per meeting: fullTranscript and timeOffset of transcribeLargeFile
  outbox,          \* the recording-started / recording-stopped messages the renderer has
                   \* not handled yet, in the order they were sent
  \* renderer (browser capture) and its main-process handlers
  rendererMeetingId, \* the renderer's own currentMeetingId (the meeting on display)
  mediaRecorder,   \* the renderer's MediaRecorder: its state and the session it was started for
  audioStreams,    \* index.js audioStreams: the meeting ids with an open .webm write stream
  conversion,      \* per meeting: the webm -> wav ffmpeg run ("none" | "spawned" | "writing")
  sent,            \* the audio-chunk and finish-audio-recording requests made so far
  \* ZoomDetector and the prompt of handleZoomMeetingDetected
  wasInMeeting,    \* ZoomDetector.wasInMeeting
  prompts,         \* the 'Zoom Meeting Detected' dialogs that are open
  zoomLog,         \* what the Zoom handlers have done so far
  now,             \* wall clock, seconds
  submits          \* successful speech-service submissions since startRealtime, in order

indexVars == <<isRecording, isPaused, currentMeetingId, pendingStarts, pipeline, events, outbox, apiKey,
               stopReturn>>
dbVars    == <<meetings, transcript>>
clockVars == <<recordingStartTime, pausedTime, notices, reported, updates>>
zoomVars == <<wasInMeeting, prompts, zoomLog>>
browserVars == <<rendererMeetingId, mediaRecorder, audioStreams, conversion, sent>>
recVars   == <<recording, process, outputPath, procState>>
fileVars  == <<wav, webm>>
tsVars    == <<realtimeActive, realtimeInterval, transcriptBuffer, lastProcessedDuration,
               tsCurrentMeetingId, schedule, submits>>
vars      == <<indexVars, dbVars, recVars, stopOp, fileVars, tsVars, polls, leftCopies, requests, largeFile, clockVars, browserVars, zoomVars, now>>

\* ---------------------------------------------------------------- helpers
Min(S) == CHOOSE x \in S : \A y \in S : x <= y

NoPath == [ext |-> "none", id |-> NoMeeting]
WavPath(m) == [ext |-> "wav", id |-> m]
WebmPath(m) == [ext |-> "webm", id |-> m]

\* Size in bytes of a mono 16-bit PCM file of d seconds (-1: no file).
PcmBytes(rate, d) == IF d < 0 THEN -1 ELSE rate * BytesPerSample * d

\* fs.existsSync(p) and fs.statSync(p).size for the paths the code builds.
FileBytes(p) ==
  CASE p.ext = "wav"  -> PcmBytes(SampleRate, wav[p.id])
    [] p.ext = "webm" -> webm[p.id]
    [] OTHER          -> -1
FileExists(p) == FileBytes(p) >= 0

\* stops: stopRecording calls that passed the guard for the meeting;
\* runs: processRecording runs scheduled for it; stop: the promise of the
\* AudioRecorder.stop() call made for it ("none" | "pending" | "resolved");
\* checks: scans of the candidate paths made so far; error: the reason sent
\* with processing-error.
IdlePipeline == [pc |-> "idle", audioPath |-> NoPath, attempt |-> 0, chunk |-> 0,
                 numChunks |-> 0, text |-> "none", stops |-> 0, runs |-> 0, stop |-> "none",
                 checks |-> 0, error |-> "none"]
\* The locals of transcribeLargeFile, lines 118-119.
NoLargeFile == [fullTranscript |-> << >>, timeOffset |-> 0]
\* No elapsed time sent or returned yet. A report keeps, next to the value, the
\* wall-clock seconds since the start and the seconds spent paused at that time.
NoReport == [via |-> "none", elapsed |-> 0, wall |-> 0, paused |-> 0]
IdleSchedule == [interval |-> FALSE, next |-> 0, probe1 |-> FALSE, probe2 |-> FALSE, start |-> 0]
\* One AudioRecorder.stop() call: its promise ("none" before the call, then
\* "pending" or "resolved"), the locals of its closure (proc, path, resolved), its
\* timers, and the milliseconds elapsed since the call.
NoStop == [state |-> "none", live |-> FALSE, proc |-> NoMeeting, path |-> NoMeeting,
           elapsed |-> 0, sigint |-> FALSE, closed |-> FALSE, flush |-> "none",
           flushAt |-> 0, timeout |-> FALSE, resolved |-> FALSE, result |-> NoPath,
           via |-> "none", resolutions |-> 0]

\* A transcript-update message: its kind ("listening" | "not-configured" |
\* "text"), its text, and the meeting whose artifact the text was read from.
Update(kind, text, art) == [kind |-> kind, text |-> text, art |-> art]

\* startRecording, lines 223-257: with a key, startRealtime sends the listening
\* text through the callback (transcription.js line 226); without one, the
\* not-configured text is sent directly.
Placeholder(key) ==
  Update(IF key THEN "listening" ELSE "not-configured", << >>, NoMeeting)

\* The messages the browser capture of the renderer reacts to.
CaptureKinds == {"recording-started", "recording-stopped"}
Message(kind, m) == [kind |-> kind, m |-> m]
Send(kind, m) ==
  /\ events' = [events EXCEPT ![m] = Append(@, kind)]
  /\ outbox' = IF kind \in CaptureKinds THEN Append(outbox, Message(kind, m)) ELSE outbox
CountEvents(kind, m) == Cardinality({i \in 1..Len(events[m]) : events[m][i] = kind})

\* ------------------------------------------------------- MeetingDatabase
\* createMeeting: a record with a fresh id (uuid) and the given status.
FreshId == Min({m \in Meetings : meetings[m] = "absent"})
createMeeting(m, status) ==
  /\ meetings' = [meetings EXCEPT ![m] = status]
  /\ transcript' = [transcript EXCEPT ![m] = "none"]

\* updateMeeting(id, {status}): no record, no change.
updateMeeting(m, status) ==
  /\ meetings' = IF meetings[m] = "absent" THEN meetings ELSE [meetings EXCEPT ![m] = status]
  /\ UNCHANGED transcript

\* updateMeeting(id, {transcript}): the stored transcript is replaced, the status
\* is left alone.
storeTranscript(m, t) ==
  /\ transcript' = IF meetings[m] = "absent" THEN transcript ELSE [transcript EXCEPT ![m] = t]
  /\ UNCHANGED meetings

\* An appendTranscript that stores the text whether final or not.
appendTranscriptAlways(m, isFinal) ==
  /\ transcript' = IF meetings[m] = "absent" THEN transcript
                   ELSE [transcript EXCEPT ![m] = IF @ \in {"none", "live"} THEN "live"
                                                  ELSE "mixed"]
  /\ UNCHANGED meetings

\* appendTranscript(meetingId, text, isFinal), lines 128-137: a final text is
\* joined to whatever transcript the record holds.
appendTranscript(m, isFinal) ==
  /\ transcript' = IF ~isFinal \/ meetings[m] = "absent" THEN transcript
                   ELSE [transcript EXCEPT ![m] = IF @ \in {"none", "live"} THEN "live"
                                                  ELSE "mixed"]
  /\ UNCHANGED meetings

\* ------------------------------------------------ TranscriptionService
\* startRealtime(meetingId, apiKey, audioRecorder, callback): resets the engine
\* state and installs the 12 s interval and the 5 s and 10 s one-shot probes.
\* The callback keeps meetingId in its closure: schedule[m] is that closure.
startRealtime(m) ==
  /\ realtimeActive' = TRUE
  /\ tsCurrentMeetingId' = m
  /\ transcriptBuffer' = << >>
  /\ lastProcessedDuration' = 0
  /\ realtimeInterval' = m
  /\ schedule' = [schedule EXCEPT ![m] =
                    [interval |-> TRUE, next |-> now + ProcessInterval,
                     probe1 |-> TRUE, probe2 |-> TRUE, start |-> now]]
  /\ submits' = << >>

\* stopRealtime(): clears the interval held in this.realtimeInterval (the one-shot
\* probes are not cancelled) and resets the engine state.
stopRealtime ==
  /\ realtimeActive' = FALSE
  /\ schedule' = IF realtimeInterval # NoMeeting
                 THEN [schedule EXCEPT ![realtimeInterval].interval = FALSE]
                 ELSE schedule
  /\ realtimeInterval' = NoMeeting
  /\ tsCurrentMeetingId' = NoMeeting
  /\ lastProcessedDuration' = 0
  /\ transcriptBuffer' = << >>
  /\ submits' = submits
  /\ polls' = [i \in 1..Len(polls) |-> [polls[i] EXCEPT !.chunkFile = FALSE]]

\* A text is a sequence of characters; " " stands for any whitespace.
RECURSIVE TrimStart(_)
TrimStart(t) == IF t # << >> /\ Head(t) = " " THEN TrimStart(Tail(t)) ELSE t
RECURSIVE TrimEnd(_)
TrimEnd(t) == IF t # << >> /\ t[Len(t)] = " " THEN TrimEnd(SubSeq(t, 1, Len(t) - 1)) ELSE t
\* String.prototype.trim
Trim(t) == TrimEnd(TrimStart(t))

\* What the speech service can answer with response_format 'text'.
Responses == { <<" ">>, <<"a">>, <<" ", "b", " ">> }

\* getAudioDuration, lines 158-187: the probed duration, or 60 when ffprobe
\* fails or does not answer within 5 s.
getAudioDuration(trueDuration, probeOk) ==
  IF probeOk THEN trueDuration ELSE FallbackDuration

\* One execution of processRealtimeChunk suspended at an await. `overlapped`
\* records that another execution was in flight at some point of this one.
\* `stale` records that the timer that started it belongs to a startRealtime call
\* whose session had already been stopped.
NewPoll(cb, art, overlapped) ==
  [stage |-> "copy", cb |-> cb, art |-> art, copyDur |-> 0, probeOk |-> TRUE,
   duration |-> 0, chunkStart |-> 0, chunkFile |-> FALSE, overlapped |-> overlapped,
   stale |-> pipeline[cb].stops > 0]
Remove(seq, i) == SubSeq(seq, 1, i - 1) \o SubSeq(seq, i + 1, Len(seq))

\* processRealtimeChunk, lines 266-299, up to `await this.copyAudioFile`: no
\* session, no file or a file under 32000 bytes end the cycle at once.
beginPoll(cb) ==
  LET art == tsCurrentMeetingId IN
    IF \/ art = NoMeeting
       \/ ~FileExists(WavPath(art))
       \/ FileBytes(WavPath(art)) < MinLiveBytes
    THEN polls' = polls
    ELSE polls' = Append([i \in 1..Len(polls) |-> [polls[i] EXCEPT !.overlapped = TRUE]],
                         NewPoll(cb, art, polls # << >>))

\* The 5 s one-shot of startRealtime, lines 242-251.
FireProbe1(m) ==
  /\ schedule[m].probe1 /\ now = schedule[m].start + ProbeOneDelay
  /\ Len(polls) < MaxPolls
  /\ schedule' = [schedule EXCEPT ![m].probe1 = FALSE]
  /\ IF realtimeActive THEN beginPoll(m) ELSE polls' = polls
  /\ UNCHANGED <<indexVars, dbVars, recVars, stopOp, fileVars, realtimeActive, realtimeInterval,
                 transcriptBuffer, lastProcessedDuration, tsCurrentMeetingId, submits, leftCopies, requests, largeFile, clockVars, browserVars, zoomVars, now>>

\* The 10 s one-shot of startRealtime, lines 254-263.
FireProbe2(m) ==
  /\ schedule[m].probe2 /\ now = schedule[m].start + ProbeTwoDelay
  /\ Len(polls) < MaxPolls
  /\ schedule' = [schedule EXCEPT ![m].probe2 = FALSE]
  /\ IF realtimeActive /\ transcriptBuffer = << >> THEN beginPoll(m) ELSE polls' = polls
  /\ UNCHANGED <<indexVars, dbVars, recVars, stopOp, fileVars, realtimeActive, realtimeInterval,
                 transcriptBuffer, lastProcessedDuration, tsCurrentMeetingId, submits, leftCopies, requests, largeFile, clockVars, browserVars, zoomVars, now>>

\* The 12 s interval of startRealtime, lines 231-239.
FireInterval(m) ==
  /\ schedule[m].interval /\ now = schedule[m].next
  /\ Len(polls) < MaxPolls
  /\ schedule' = [schedule EXCEPT ![m].next = @ + ProcessInterval]
  /\ IF realtimeActive THEN beginPoll(m) ELSE polls' = polls
  /\ UNCHANGED <<indexVars, dbVars, recVars, stopOp, fileVars, realtimeActive, realtimeInterval,
                 transcriptBuffer, lastProcessedDuration, tsCurrentMeetingId, submits, leftCopies, requests, largeFile, clockVars, browserVars, zoomVars, now>>

\* processRealtimeChunk, lines 298-310: copyAudioFile has settled. The copy holds
\* the artifact as it is now; a failed or timed-out copy ends the cycle.
CopyDone(i, ok) ==
  /\ i \in 1..Len(polls) /\ polls[i].stage = "copy"
  /\ polls' = IF ok
              THEN [polls EXCEPT ![i].stage = "probe", ![i].copyDur = wav[polls[i].art]]
              ELSE Remove(polls, i)
  /\ UNCHANGED <<indexVars, dbVars, recVars, stopOp, fileVars, tsVars, leftCopies, requests, largeFile, clockVars, browserVars, zoomVars, now>>

\* processRealtimeChunk, lines 298-303: copyAudioFile rejected (non-zero exit, or
\* the 10 s timeout of lines 403-406 killed ffmpeg) after ffmpeg had opened its
\* output; the catch returns without unlinking tempCopyPath.
CopyAborted(i) ==
  /\ i \in 1..Len(polls) /\ polls[i].stage = "copy"
  /\ polls' = Remove(polls, i)
  /\ leftCopies' = leftCopies + 1
  /\ UNCHANGED <<indexVars, dbVars, recVars, stopOp, fileVars, tsVars, requests, largeFile, clockVars, browserVars, zoomVars, now>>

\* processRealtimeChunk, lines 310-324: the duration probe has resolved; under
\* 5 s of new audio ends the cycle, otherwise the region [cursor, duration) is
\* handed to extractAudioChunk.
ProbeDone(i, ok) ==
  /\ i \in 1..Len(polls) /\ polls[i].stage = "probe"
  /\ LET duration == getAudioDuration(polls[i].copyDur, ok) IN
       polls' = IF duration - lastProcessedDuration < MinDeltaSeconds
                THEN Remove(polls, i)
                ELSE [polls EXCEPT ![i].stage = "extract", ![i].probeOk = ok,
                                   ![i].duration = duration,
                                   ![i].chunkStart = lastProcessedDuration]
  /\ UNCHANGED <<indexVars, dbVars, recVars, stopOp, fileVars, tsVars, leftCopies, requests, largeFile, clockVars, browserVars, zoomVars, now>>

\* Seconds of audio in the chunk ffmpeg cuts from the copy with -ss chunkStart
\* -t (duration - chunkStart): no more than the copy holds.
ChunkSeconds(p) ==
  LET end == IF p.copyDur < p.duration THEN p.copyDur ELSE p.duration
  IN IF end > p.chunkStart THEN end - p.chunkStart ELSE 0

\* processRealtimeChunk, lines 324-345: extractAudioChunk has settled; a failure
\* or a chunk under 8000 bytes ends the cycle, otherwise the chunk is submitted.
ExtractDone(i, ok) ==
  /\ i \in 1..Len(polls) /\ polls[i].stage = "extract"
  /\ polls' = IF ok /\ PcmBytes(ChunkSampleRate, ChunkSeconds(polls[i])) >= MinChunkBytes
              THEN [polls EXCEPT ![i].stage = "submit", ![i].chunkFile = TRUE]
              ELSE Remove(polls, i)
  /\ UNCHANGED <<indexVars, dbVars, recVars, stopOp, fileVars, tsVars, leftCopies, requests, largeFile, clockVars, browserVars, zoomVars, now>>

\* A catch block that also moves the cursor past the region it failed on.
SubmitFailsAdvances(i) ==
  /\ i \in 1..Len(polls) /\ polls[i].stage = "submit"
  /\ polls' = Remove(polls, i)
  /\ lastProcessedDuration' = polls[i].duration
  /\ UNCHANGED <<indexVars, dbVars, recVars, stopOp, fileVars, realtimeActive, realtimeInterval,
                 transcriptBuffer, tsCurrentMeetingId, schedule, submits, leftCopies, requests, largeFile, clockVars, browserVars, zoomVars, now>>

\* processRealtimeChunk, lines 369-373: the request threw.
SubmitFails(i) ==
  /\ i \in 1..Len(polls) /\ polls[i].stage = "submit"
  /\ polls' = Remove(polls, i)
  /\ UNCHANGED <<indexVars, dbVars, recVars, stopOp, fileVars, tsVars, leftCopies, requests, largeFile, clockVars, browserVars, zoomVars, now>>

\* An append that runs the new text straight onto the old.
appendTextNoSpace(buffer, text) == buffer \o text

\* processRealtimeChunk, lines 356-358: the new text follows the old after a space.
appendText(buffer, text) ==
  IF buffer # << >> THEN buffer \o <<" ">> \o text ELSE text

\* processRealtimeChunk, lines 345-367: the speech service answered `raw`. A text
\* that is not empty after trim() is appended to the buffer after a space and the
\* whole buffer goes to the callback; the cursor moves to `duration` either way.
SubmitDone(i, raw) ==
  /\ i \in 1..Len(polls) /\ polls[i].stage = "submit"
  /\ Len(submits) < MaxSubmits
  /\ LET p == polls[i]
         text == Trim(raw)
         buffer == IF Len(text) > 0 THEN appendText(transcriptBuffer, text)
                   ELSE transcriptBuffer
     IN /\ transcriptBuffer' = buffer
        /\ lastProcessedDuration' = p.duration
        /\ submits' = Append(submits,
              [from |-> p.chunkStart, to |-> p.duration, read |-> p.copyDur,
               probeOk |-> p.probeOk, raw |-> raw, art |-> p.art, cb |-> p.cb,
               delivered |-> Len(text) > 0, buffer |-> buffer,
               serial |-> ~p.overlapped, live |-> realtimeActive,
               session |-> tsCurrentMeetingId])
        \* index.js lines 236-241: every callback invocation is forwarded as a
        \* transcript-update carrying the meeting id of the callback's closure.
        /\ updates' = IF Len(text) > 0
                      THEN [updates EXCEPT ![p.cb] = Append(@, Update("text", buffer, p.art))]
                      ELSE updates
        \* callback(buffer, false), line 362: index.js stores a text only when
        \* isFinal is set (lines 231-233).
        /\ appendTranscript(p.cb, FALSE)
  /\ polls' = Remove(polls, i)
  /\ UNCHANGED <<indexVars, recVars, stopOp, fileVars, realtimeActive, realtimeInterval,
                 tsCurrentMeetingId, schedule, leftCopies, requests, largeFile,
                 recordingStartTime, pausedTime, notices, reported, browserVars, zoomVars, now>>

\* ---------------------------------------------------------- AudioRecorder
\* start(meetingId): no-op while recording; otherwise spawns the capture process.
\* spawned = FALSE: neither ffmpeg nor the sox fallback could be launched (their
\* 'error' handlers leave recording = false).
recorderStart(m, spawned) ==
  IF recording
  THEN UNCHANGED <<recVars, wav>>
  ELSE /\ outputPath' = m
       /\ process' = m
       /\ recording' = spawned
       /\ procState' = [procState EXCEPT ![m] = IF spawned THEN "alive" ELSE "exited"]
       /\ wav' = wav

\* stop(), seen from its caller: the promise is pending until StopResolves below.
\* Taken when recording is true: recording := false, the handle is released.
recorderStopBegin ==
  /\ recording' = FALSE
  /\ process' = NoMeeting
  /\ UNCHANGED <<outputPath, procState>>

\* The value stop() resolves with when it is settled now: on the close path the
\* path only if the file exists and is over 1000 bytes; on the timeout path and
\* without a process handle the path whenever the file exists.
StopResultOnClose(m) ==
  IF FileExists(WavPath(m)) /\ FileBytes(WavPath(m)) > MinArtifactBytes
  THEN WavPath(m) ELSE NoPath
StopResultOnTimeout(m) == IF FileExists(WavPath(m)) THEN WavPath(m) ELSE NoPath

\* finishWithPath, lines 194-199: settles the promise unless it is settled.
finishWithPath(op, path, via) ==
  IF op.resolved THEN op
  ELSE [op EXCEPT !.resolved = TRUE, !.state = "resolved", !.result = path,
                  !.via = via, !.resolutions = @ + 1]

\* stop(), lines 181-275, up to its return: the promise and its timers.
RecorderStop ==
  /\ stopOp.state = "none"
  /\ IF ~recording
     THEN /\ stopOp' = [NoStop EXCEPT !.state = "resolved", !.result = NoPath,
                                      !.via = "idle", !.resolutions = 1]
          /\ UNCHANGED <<recording, process>>
     ELSE /\ recording' = FALSE
          /\ LET op == [NoStop EXCEPT !.state = "pending", !.live = TRUE,
                                      !.path = outputPath, !.proc = process]
             IN IF process # NoMeeting
                THEN /\ process' = NoMeeting
                     /\ stopOp' = op
                ELSE /\ process' = process
                     /\ stopOp' = finishWithPath(op, StopResultOnTimeout(outputPath), "nohandle")
  /\ UNCHANGED <<indexVars, dbVars, outputPath, procState, fileVars, tsVars, polls, leftCopies, requests, largeFile, clockVars, browserVars, zoomVars, now>>

\* The 500 ms timer: proc.kill('SIGINT').
SigintTimer ==
  /\ stopOp.proc # NoMeeting
  /\ ~stopOp.sigint /\ stopOp.elapsed = SigintDelay
  /\ stopOp' = [stopOp EXCEPT !.sigint = TRUE]
  /\ UNCHANGED <<indexVars, dbVars, recVars, fileVars, tsVars, polls, leftCopies, requests, largeFile, clockVars, browserVars, zoomVars, now>>

\* The capture process exits after stop() was called: the 'close' handler stop()
\* registered arms the 1 s flush timer.
ProcCloses ==
  /\ stopOp.proc # NoMeeting
  /\ procState[stopOp.proc] = "alive"
  /\ procState' = [procState EXCEPT ![stopOp.proc] = "exited"]
  /\ stopOp' = [stopOp EXCEPT !.closed = TRUE, !.flush = "armed",
                              !.flushAt = stopOp.elapsed + FlushDelay]
  /\ UNCHANGED <<indexVars, dbVars, recording, process, outputPath, fileVars, tsVars, polls, leftCopies, requests, largeFile, clockVars, browserVars, zoomVars, now>>

\* The capture process exits on its own during the recording: the 'close'
\* handlers of startFFmpegRecording / startSoxRecording only log.
ProcCrashes(m) ==
  /\ stopOp.state = "none"
  /\ procState[m] = "alive"
  /\ procState' = [procState EXCEPT ![m] = "exited"]
  /\ UNCHANGED <<indexVars, dbVars, recording, process, outputPath, stopOp, fileVars, tsVars,
                 polls, leftCopies, requests, largeFile, clockVars, browserVars, zoomVars, now>>

\* The flush timer of the 'close' handler, lines 235-249.
FlushTimer ==
  /\ stopOp.flush = "armed" /\ stopOp.elapsed = stopOp.flushAt
  /\ stopOp' = finishWithPath([stopOp EXCEPT !.flush = "fired"],
                              StopResultOnClose(stopOp.path), "close")
  /\ UNCHANGED <<indexVars, dbVars, recVars, fileVars, tsVars, polls, leftCopies, requests, largeFile, clockVars, browserVars, zoomVars, now>>

\* The 5 s fallback whose callback does nothing when the file is not there.
TimeoutTimerNeedsFile ==
  /\ stopOp.proc # NoMeeting
  /\ ~stopOp.timeout /\ stopOp.elapsed = StopTimeout
  /\ stopOp' = IF stopOp.resolved \/ ~FileExists(WavPath(stopOp.path))
               THEN [stopOp EXCEPT !.timeout = TRUE]
               ELSE finishWithPath([stopOp EXCEPT !.timeout = TRUE],
                                   StopResultOnTimeout(stopOp.path), "timeout")
  /\ UNCHANGED <<indexVars, dbVars, recVars, fileVars, tsVars, polls, leftCopies, requests, largeFile, clockVars, browserVars, zoomVars, now>>

\* The 5 s fallback, lines 253-265.
TimeoutTimer ==
  /\ stopOp.proc # NoMeeting
  /\ ~stopOp.timeout /\ stopOp.elapsed = StopTimeout
  /\ stopOp' = IF stopOp.resolved
               THEN [stopOp EXCEPT !.timeout = TRUE]
               ELSE finishWithPath([stopOp EXCEPT !.timeout = TRUE],
                                   StopResultOnTimeout(stopOp.path), "timeout")
  /\ UNCHANGED <<indexVars, dbVars, recVars, fileVars, tsVars, polls, leftCopies, requests, largeFile, clockVars, browserVars, zoomVars, now>>

\* Time passes for the stop() call, one SIGINT delay at a time; a timer that is
\* due fires before time moves on.
StopTimerDue ==
  \/ ~stopOp.sigint /\ stopOp.elapsed = SigintDelay
  \/ ~stopOp.timeout /\ stopOp.elapsed = StopTimeout
  \/ stopOp.flush = "armed" /\ stopOp.elapsed = stopOp.flushAt
StopTick ==
  /\ stopOp.proc # NoMeeting
  /\ ~StopTimerDue
  /\ stopOp.elapsed < StopTimeout + FlushDelay
  /\ stopOp' = [stopOp EXCEPT !.elapsed = @ + SigintDelay]
  /\ UNCHANGED <<indexVars, dbVars, recVars, fileVars, tsVars, polls, leftCopies, requests, largeFile, clockVars, browserVars, zoomVars, now>>

\* ------------------------------------------------------------- index.js
\* startRecording, lines 186-199: the guard, then the call suspends at the
\* microphone-permission check.
StartCall ==
  /\ ~isRecording
  /\ pendingStarts < MaxStartCalls
  /\ pendingStarts' = pendingStarts + 1
  /\ UNCHANGED <<isRecording, isPaused, currentMeetingId, pipeline, events, outbox, apiKey, stopReturn,
                 dbVars, recVars, stopOp, fileVars, tsVars, polls, leftCopies, requests, largeFile, clockVars, browserVars, zoomVars, now>>

\* startRecording while isRecording: 'Already recording', return.
StartNoop ==
  /\ isRecording
  /\ UNCHANGED vars

\* startRecording, lines 199-203: permission refused, the call returns.
StartDenied ==
  /\ pendingStarts > 0
  /\ pendingStarts' = pendingStarts - 1
  /\ UNCHANGED <<isRecording, isPaused, currentMeetingId, pipeline, events, outbox, apiKey, stopReturn,
                 dbVars, recVars, stopOp, fileVars, tsVars, polls, leftCopies, requests, largeFile, clockVars, browserVars, zoomVars, now>>

\* A startRecording that gives the session up when no capture tool launched.
StartContinueAborting(spawned) ==
  /\ pendingStarts > 0
  /\ \E m \in Meetings : meetings[m] = "absent"
  /\ LET m == FreshId IN
       /\ pendingStarts' = pendingStarts - 1
       /\ isRecording' = spawned
       /\ isPaused' = FALSE
       /\ createMeeting(m, IF spawned THEN "recording" ELSE "failed")
       /\ currentMeetingId' = m
       /\ recorderStart(m, spawned)
       /\ IF apiKey
          THEN startRealtime(m)
          ELSE UNCHANGED tsVars
       /\ recordingStartTime' = now
       /\ pausedTime' = 0
       /\ updates' = [updates EXCEPT ![m] = Append(@, Placeholder(apiKey))]
       /\ Send("recording-started", m)
       /\ UNCHANGED <<pipeline, apiKey, stopReturn, stopOp, webm, polls, leftCopies, requests,
                      largeFile, notices, reported, browserVars, zoomVars, now>>

\* A startRecording that sends the not-configured text whether or not a key is
\* set, next to the listening text of startRealtime.
StartContinueBothTexts(spawned) ==
  /\ pendingStarts > 0
  /\ \E m \in Meetings : meetings[m] = "absent"
  /\ LET m == FreshId IN
       /\ pendingStarts' = pendingStarts - 1
       /\ isRecording' = TRUE
       /\ isPaused' = FALSE
       /\ createMeeting(m, "recording")
       /\ currentMeetingId' = m
       /\ recorderStart(m, spawned)
       /\ IF apiKey
          THEN startRealtime(m)
          ELSE UNCHANGED tsVars
       /\ recordingStartTime' = now
       /\ pausedTime' = 0
       /\ updates' = [updates EXCEPT ![m] =
             IF apiKey THEN @ \o <<Placeholder(TRUE), Placeholder(FALSE)>>
             ELSE Append(@, Placeholder(FALSE))]
       /\ Send("recording-started", m)
       /\ UNCHANGED <<pipeline, apiKey, stopReturn, stopOp, webm, polls, leftCopies, requests,
                      largeFile, notices, reported, browserVars, zoomVars, now>>

\* startRecording, lines 205-283: permission granted; the rest of the function
\* runs without another await.
StartContinue(spawned) ==
  /\ pendingStarts > 0
  /\ \E m \in Meetings : meetings[m] = "absent"
  /\ LET m == FreshId IN
       /\ pendingStarts' = pendingStarts - 1
       /\ isRecording' = TRUE
       /\ isPaused' = FALSE
       /\ createMeeting(m, "recording")
       /\ currentMeetingId' = m
       /\ recorderStart(m, spawned)
       /\ IF apiKey
          THEN startRealtime(m)
          ELSE UNCHANGED tsVars
       /\ recordingStartTime' = now
       /\ pausedTime' = 0
       /\ updates' = [updates EXCEPT ![m] = Append(@, Placeholder(apiKey))]
       /\ Send("recording-started", m)
       /\ UNCHANGED <<pipeline, apiKey, stopReturn, stopOp, webm, polls, leftCopies, requests,
                      largeFile, notices, reported, browserVars, zoomVars, now>>

\* startRecording, lines 205-260 and 285-289: createRecordingOverlay throws
\* after the record was created, the recorder started and the live engine
\* started or the not-configured text sent; the catch block resets isRecording
\* and currentMeetingId and nothing else. No recording-started is sent.
StartFails(spawned) ==
  /\ pendingStarts > 0
  /\ \E m \in Meetings : meetings[m] = "absent"
  /\ LET m == FreshId IN
       /\ pendingStarts' = pendingStarts - 1
       /\ createMeeting(m, "recording")
       /\ recorderStart(m, spawned)
       /\ IF apiKey
          THEN startRealtime(m)
          ELSE UNCHANGED tsVars
       /\ recordingStartTime' = now
       /\ pausedTime' = 0
       /\ updates' = [updates EXCEPT ![m] = Append(@, Placeholder(apiKey))]
       /\ isPaused' = FALSE
       /\ isRecording' = FALSE
       /\ currentMeetingId' = NoMeeting
       /\ UNCHANGED <<pipeline, events, outbox, apiKey, stopReturn, stopOp, webm, polls,
                      leftCopies, requests, largeFile, notices, reported, browserVars,
                      zoomVars, now>>

\* stopRecording while not recording: 'Not recording', return null.
StopNoop ==
  /\ ~isRecording
  /\ stopReturn' = "null"
  /\ UNCHANGED <<isRecording, isPaused, currentMeetingId, pendingStarts, pipeline, events, outbox, apiKey,
                 dbVars, recVars, stopOp, fileVars, tsVars, polls, leftCopies, requests, largeFile, clockVars, browserVars, zoomVars, now>>

\* A stopRecording that announces the processing before the stop.
stopRecordingTailProcessingFirst(m, audioPath) ==
  /\ updateMeeting(m, "processing")
  /\ events' = [events EXCEPT ![m] = @ \o <<"processing-started", "recording-stopped">>]
  /\ outbox' = Append(outbox, Message("recording-stopped", m))
  /\ pipeline' = [pipeline EXCEPT ![m] =
                    [@ EXCEPT !.pc = "settle", !.audioPath = audioPath, !.runs = @ + 1,
                              !.stop = "resolved"]]
  /\ stopReturn' = "id"

\* stopRecording, lines 329-361, after `await audioRecorder.stop()`: the record
\* goes to 'processing', the two messages are sent, and processRecording is
\* scheduled 3 s later.
stopRecordingTail(m, audioPath) ==
  /\ updateMeeting(m, "processing")
  /\ events' = [events EXCEPT ![m] = @ \o <<"recording-stopped", "processing-started">>]
  /\ outbox' = Append(outbox, Message("recording-stopped", m))
  /\ pipeline' = [pipeline EXCEPT ![m] =
                    [@ EXCEPT !.pc = "settle", !.audioPath = audioPath, !.runs = @ + 1,
                              !.stop = "resolved"]]
  /\ stopReturn' = "id"

\* stopRecording with the state reset left until after the await: the guard
\* stays open while the first call is suspended.
StopCallDeferredReset ==
  /\ isRecording
  /\ LET m == currentMeetingId IN
       /\ stopRealtime
       /\ IF recording
          THEN /\ recorderStopBegin
               /\ pipeline' = [pipeline EXCEPT ![m] =
                     [@ EXCEPT !.pc = "awaitStop", !.audioPath = WavPath(outputPath),
                               !.stops = @ + 1, !.stop = "pending"]]
               /\ UNCHANGED <<events, outbox, dbVars, stopReturn>>
          ELSE /\ UNCHANGED recVars
               /\ updateMeeting(m, "processing")
               /\ events' = [events EXCEPT ![m] = @ \o <<"recording-stopped", "processing-started">>]
               /\ outbox' = Append(outbox, Message("recording-stopped", m))
               /\ pipeline' = [pipeline EXCEPT ![m] =
                     [@ EXCEPT !.pc = "settle", !.audioPath = NoPath,
                               !.stops = @ + 1, !.runs = @ + 1, !.stop = "resolved"]]
               /\ stopReturn' = "id"
       /\ UNCHANGED <<isRecording, isPaused, currentMeetingId, pendingStarts, apiKey, stopOp,
                      fileVars, leftCopies, requests, largeFile, clockVars, browserVars, zoomVars, now>>

\* A stopRecording that does not await audioRecorder.stop(): the processing is
\* scheduled while the capture stop is still pending.
StopCallNoAwait ==
  /\ isRecording
  /\ LET m == currentMeetingId IN
       /\ isRecording' = FALSE
       /\ isPaused' = FALSE
       /\ currentMeetingId' = NoMeeting
       /\ recordingStartTime' = NoTime
       /\ stopRealtime
       /\ IF recording THEN recorderStopBegin ELSE UNCHANGED recVars
       /\ updateMeeting(m, "processing")
       /\ events' = [events EXCEPT ![m] = @ \o <<"recording-stopped", "processing-started">>]
       /\ outbox' = Append(outbox, Message("recording-stopped", m))
       /\ pipeline' = [pipeline EXCEPT ![m] =
             [@ EXCEPT !.pc = "settle",
                       !.audioPath = IF recording THEN WavPath(outputPath) ELSE NoPath,
                       !.stops = @ + 1, !.runs = @ + 1,
                       !.stop = IF recording THEN "pending" ELSE "resolved"]]
       /\ stopReturn' = "id"
       /\ UNCHANGED <<pendingStarts, apiKey, stopOp, fileVars, leftCopies, requests, largeFile,
                      pausedTime, notices, reported, updates, browserVars, zoomVars, now>>

\* stopRecording, lines 292-323: the state is reset at once, the live engine is
\* cancelled, and the call suspends at `await audioRecorder.stop()`.
\* When the recorder is not recording, stop() has already resolved null and the
\* continuation runs as a microtask, before any other handler.
stopRecording ==
  /\ isRecording
  /\ LET m == currentMeetingId IN
       /\ isRecording' = FALSE
       /\ isPaused' = FALSE
       /\ currentMeetingId' = NoMeeting
       /\ recordingStartTime' = NoTime
       /\ stopRealtime
       /\ IF recording
          THEN /\ recorderStopBegin
               /\ pipeline' = [pipeline EXCEPT ![m] =
                     [@ EXCEPT !.pc = "awaitStop", !.audioPath = WavPath(outputPath),
                               !.stops = @ + 1, !.stop = "pending"]]
               /\ UNCHANGED <<events, outbox, dbVars, stopReturn>>
          ELSE /\ UNCHANGED recVars
               /\ updateMeeting(m, "processing")
               /\ events' = [events EXCEPT ![m] = @ \o <<"recording-stopped", "processing-started">>]
               /\ outbox' = Append(outbox, Message("recording-stopped", m))
               /\ pipeline' = [pipeline EXCEPT ![m] =
                     [@ EXCEPT !.pc = "settle", !.audioPath = NoPath,
                               !.stops = @ + 1, !.runs = @ + 1, !.stop = "resolved"]]
               /\ stopReturn' = "id"
       /\ UNCHANGED <<pendingStarts, apiKey, stopOp, fileVars, leftCopies, requests, largeFile,
                      pausedTime, notices, reported, updates, browserVars, now>>

StopCall == stopRecording /\ UNCHANGED zoomVars

\* AudioRecorder.stop() resolves through the 'close' handler: the capture process
\* has exited and the file was given 1 s to flush.
StopResolvesOnClose(m) ==
  /\ pipeline[m].pc = "awaitStop"
  /\ LET o == pipeline[m].audioPath.id IN
       /\ procState' = [procState EXCEPT ![o] = "exited"]
       /\ stopRecordingTail(m, StopResultOnClose(o))
  /\ UNCHANGED <<isRecording, isPaused, currentMeetingId, pendingStarts, apiKey,
                 recording, process, outputPath, stopOp, fileVars, tsVars, polls, leftCopies, requests, largeFile, clockVars, browserVars, zoomVars, now>>

\* AudioRecorder.stop() resolves through the 5 s fallback: the capture process has
\* not closed.
StopResolvesOnTimeout(m) ==
  /\ pipeline[m].pc = "awaitStop"
  /\ stopRecordingTail(m, StopResultOnTimeout(pipeline[m].audioPath.id))
  /\ UNCHANGED <<isRecording, isPaused, currentMeetingId, pendingStarts, apiKey,
                 recVars, stopOp, fileVars, tsVars, polls, leftCopies, requests, largeFile, clockVars, browserVars, zoomVars, now>>

\* processRecording, lines 384-402 and 410-419: the first candidate path that
\* exists and is over 1000 bytes, among the path stop() returned,
\* recordings/{id}.wav and recordings/{id}.webm.
Usable(p) == p # NoPath /\ FileExists(p) /\ FileBytes(p) > MinArtifactBytes
FindAudio(m, audioPath) ==
  CASE Usable(audioPath)   -> audioPath
    [] Usable(WavPath(m))  -> WavPath(m)
    [] Usable(WebmPath(m)) -> WebmPath(m)
    [] OTHER               -> NoPath

CeilDiv(a, b) == (a + b - 1) \div b

\* A failure path that reports the error but leaves the record as it is.
FailKeepsStatus(m) ==
  /\ Send("processing-error", m)
  /\ pipeline' = [pipeline EXCEPT ![m].pc = "done"]
  /\ UNCHANGED dbVars

\* The reason processRecording gives when it fails where the run stands: the
\* missing key (line 377), 'No audio recorded' after the second scan (line 426),
\* or the message of the error caught at line 472.
FailReason(m) ==
  CASE pipeline[m].pc = "settle" -> "no-key"
    [] pipeline[m].pc = "wait"   -> "no-audio"
    [] OTHER                     -> "transcription"

\* The session ends Failed: status 'failed' and a processing-error message.
Fail(m) ==
  /\ updateMeeting(m, "failed")
  /\ Send("processing-error", m)
  /\ pipeline' = [pipeline EXCEPT ![m] =
        [@ EXCEPT !.pc = "done", !.error = FailReason(m),
                  !.checks = IF pipeline[m].pc = "wait" THEN @ + 1 ELSE @]]

\* transcribeFile, lines 34-56, up to its first await: a file over 25 MB goes to
\* transcribeLargeFile (which first awaits the duration probe), any other file
\* to the first of at most three requests.
transcribeFileBegin(m, p) ==
  /\ pipeline' = [pipeline EXCEPT ![m] =
        [@ EXCEPT !.audioPath = p, !.attempt = 1, !.checks = @ + 1,
                  !.pc = IF FileBytes(p) > LargeFileMB * 1024 * 1024
                         THEN "largeProbe" ELSE "transcribe"]]
  /\ UNCHANGED <<events, outbox, dbVars>>

\* A processRecording that gives up after the first scan of the candidates.
ProcessRecordingNoWait(m) ==
  /\ pipeline[m].pc = "settle"
  /\ IF ~apiKey
     THEN Fail(m)
     ELSE LET p == FindAudio(m, pipeline[m].audioPath) IN
            IF p = NoPath
            THEN /\ updateMeeting(m, "failed")
                 /\ Send("processing-error", m)
                 /\ pipeline' = [pipeline EXCEPT ![m] =
                       [@ EXCEPT !.pc = "done", !.error = "no-audio", !.checks = @ + 1]]
            ELSE transcribeFileBegin(m, p)
  /\ UNCHANGED <<isRecording, isPaused, currentMeetingId, pendingStarts, apiKey, stopReturn,
                 recVars, stopOp, fileVars, tsVars, polls, leftCopies, requests, largeFile, clockVars, browserVars, zoomVars, now>>

\* processRecording, lines 364-436, run by the 3 s timer.
ProcessRecording(m) ==
  /\ pipeline[m].pc = "settle"
  /\ IF ~apiKey
     THEN Fail(m)
     ELSE LET p == FindAudio(m, pipeline[m].audioPath) IN
            IF p = NoPath
            THEN /\ pipeline' = [pipeline EXCEPT ![m].pc = "wait", ![m].checks = @ + 1]
                 /\ UNCHANGED <<events, outbox, dbVars>>
            ELSE transcribeFileBegin(m, p)
  /\ UNCHANGED <<isRecording, isPaused, currentMeetingId, pendingStarts, apiKey, stopReturn,
                 recVars, stopOp, fileVars, tsVars, polls, leftCopies, requests, largeFile, clockVars, browserVars, zoomVars, now>>

\* processRecording, lines 404-436, after the 2 s wait: the second lookup.
ProcessAfterWait(m) ==
  /\ pipeline[m].pc = "wait"
  /\ LET p == FindAudio(m, pipeline[m].audioPath) IN
       IF p = NoPath THEN Fail(m) ELSE transcribeFileBegin(m, p)
  /\ UNCHANGED <<isRecording, isPaused, currentMeetingId, pendingStarts, apiKey, stopReturn,
                 recVars, stopOp, fileVars, tsVars, polls, leftCopies, requests, largeFile, clockVars, browserVars, zoomVars, now>>

\* A processRecording without the length check of line 439.
transcriptReturnedAnyLength(m, long) ==
  /\ storeTranscript(m, "final")
  /\ Send("transcript-complete", m)
  /\ pipeline' = [pipeline EXCEPT ![m].pc = "summary", ![m].text = "long"]

\* processRecording, lines 437-447, once transcribeFile has returned a text of
\* the given length class: under 10 characters is an error, otherwise the
\* transcript is stored and the summary is requested.
transcriptReturned(m, long) ==
  IF long
  THEN /\ storeTranscript(m, "final")
       /\ Send("transcript-complete", m)
       /\ pipeline' = [pipeline EXCEPT ![m].pc = "summary", ![m].text = "long"]
  ELSE Fail(m)

\* One answered request of the final transcription, as logged in `requests`;
\* `chunk` is the loop index on the chunked path, `segs` the segment starts
\* (seconds) of the answer.
Answered(via, outcome) == [via |-> via, outcome |-> outcome, chunk |-> 0, segs |-> << >>]

\* A retry loop that treats a 401 like any other failure.
TranscribeResponseRetriesAuth(m, outcome) ==
  /\ pipeline[m].pc = "transcribe"
  /\ requests' = [requests EXCEPT ![m] = Append(@, Answered("file", outcome))]
  /\ CASE outcome \in {"long", "short"} -> transcriptReturned(m, outcome = "long")
       [] OTHER -> IF pipeline[m].attempt < MaxAttempts
                   THEN /\ pipeline' = [pipeline EXCEPT ![m].attempt = @ + 1]
                        /\ UNCHANGED <<events, outbox, dbVars>>
                   ELSE Fail(m)
  /\ UNCHANGED <<isRecording, isPaused, currentMeetingId, pendingStarts, apiKey, stopReturn,
                 recVars, stopOp, fileVars, tsVars, polls, leftCopies, largeFile, clockVars, browserVars, zoomVars, now>>

\* transcribeFile, lines 59-106: the answer to request number `attempt`.
\* "long"/"short": a transcript; "auth": 401, thrown at once; "rate", "error":
\* retried after the backoff until the third attempt has failed.
TranscribeResponse(m, outcome) ==
  /\ pipeline[m].pc = "transcribe"
  /\ requests' = [requests EXCEPT ![m] = Append(@, Answered("file", outcome))]
  /\ CASE outcome \in {"long", "short"} -> transcriptReturned(m, outcome = "long")
       [] outcome = "auth" -> Fail(m)
       [] OTHER -> IF pipeline[m].attempt < MaxAttempts
                   THEN /\ pipeline' = [pipeline EXCEPT ![m].attempt = @ + 1]
                        /\ UNCHANGED <<events, outbox, dbVars>>
                   ELSE Fail(m)
  /\ UNCHANGED <<isRecording, isPaused, currentMeetingId, pendingStarts, apiKey, stopReturn,
                 recVars, stopOp, fileVars, tsVars, polls, leftCopies, largeFile, clockVars, browserVars, zoomVars, now>>

\* transcribeLargeFile, lines 109-119: the duration probe has resolved and the
\* chunk count is fixed.
LargeProbe(m, probeOk) ==
  /\ pipeline[m].pc = "largeProbe"
  /\ largeFile' = [largeFile EXCEPT ![m] = NoLargeFile]
  /\ LET duration == getAudioDuration(wav[pipeline[m].audioPath.id], probeOk)
         numChunks == CeilDiv(duration, ChunkDuration)
     IN IF numChunks = 0
        THEN transcriptReturned(m, FALSE)
        ELSE /\ pipeline' = [pipeline EXCEPT ![m].pc = "chunks", ![m].chunk = 0,
                                ![m].numChunks = numChunks, ![m].text = "short"]
             /\ UNCHANGED <<events, outbox, dbVars>>
  /\ UNCHANGED <<isRecording, isPaused, currentMeetingId, pendingStarts, apiKey, stopReturn,
                 recVars, stopOp, fileVars, tsVars, polls, leftCopies, requests, clockVars, browserVars, zoomVars, now>>

\* formatTime, lines 437-441: minutes and seconds, both floored.
formatTime(seconds) == <<seconds \div 60, seconds % 60>>

\* One line of the chunked transcript, lines 139-142: the segment's start moved
\* by the running offset, rendered by formatTime.
TranscriptLine(c, start, offset) ==
  [chunk |-> c, start |-> start, stamp |-> formatTime(start + offset)]

\* Seconds of audio extractAudioChunk cuts for chunk c with -ss 600*c -t 600.
ChunkLength(m, c) ==
  LET rest == wav[pipeline[m].audioPath.id] - c * ChunkDuration
  IN IF rest > ChunkDuration THEN ChunkDuration ELSE rest

\* The segment starts the speech service may report for a chunk of len seconds.
SegmentStarts(len) == IF len > 1 THEN {<<0>>, <<0, len - 1>>} ELSE {<<0>>}

\* A loop that moves the offset on only after a transcribed chunk.
chunkDoneOffsetOnSuccess(m, gotLines, outcome) ==
  /\ pipeline[m].pc = "chunks"
  /\ \E segs \in (IF gotLines THEN SegmentStarts(ChunkLength(m, pipeline[m].chunk))
                  ELSE {<< >>}) :
       /\ requests' = [requests EXCEPT ![m] =
             Append(@, [Answered("chunk", outcome) EXCEPT !.chunk = pipeline[m].chunk,
                                                          !.segs = segs])]
       /\ largeFile' = [largeFile EXCEPT ![m] =
             [fullTranscript |-> @.fullTranscript \o
                [k \in 1..Len(segs) |-> TranscriptLine(pipeline[m].chunk, segs[k], @.timeOffset)],
              timeOffset |-> IF gotLines THEN @.timeOffset + ChunkDuration ELSE @.timeOffset]]
  /\ LET text == IF gotLines THEN "long" ELSE pipeline[m].text
         last == pipeline[m].chunk + 1 >= pipeline[m].numChunks
     IN IF last
        THEN transcriptReturned(m, text = "long")
        ELSE /\ pipeline' = [pipeline EXCEPT ![m].chunk = @ + 1, ![m].text = text]
             /\ UNCHANGED <<events, outbox, dbVars>>
  /\ UNCHANGED <<isRecording, isPaused, currentMeetingId, pendingStarts, apiKey, stopReturn,
                 recVars, stopOp, fileVars, tsVars, polls, leftCopies, clockVars, browserVars, zoomVars, now>>

\* A loop in which the first failed chunk fails the whole job.
chunkDoneFailFast(m, gotLines, outcome) ==
  /\ pipeline[m].pc = "chunks"
  /\ \E segs \in (IF gotLines THEN SegmentStarts(ChunkLength(m, pipeline[m].chunk))
                  ELSE {<< >>}) :
       /\ requests' = [requests EXCEPT ![m] =
             Append(@, [Answered("chunk", outcome) EXCEPT !.chunk = pipeline[m].chunk,
                                                          !.segs = segs])]
       /\ largeFile' = [largeFile EXCEPT ![m] =
             [fullTranscript |-> @.fullTranscript \o
                [k \in 1..Len(segs) |-> TranscriptLine(pipeline[m].chunk, segs[k], @.timeOffset)],
              timeOffset |-> @.timeOffset + ChunkDuration]]
  /\ LET text == IF gotLines THEN "long" ELSE pipeline[m].text
         last == pipeline[m].chunk + 1 >= pipeline[m].numChunks
     IN IF ~gotLines THEN Fail(m)
        ELSE IF last
        THEN transcriptReturned(m, text = "long")
        ELSE /\ pipeline' = [pipeline EXCEPT ![m].chunk = @ + 1, ![m].text = text]
             /\ UNCHANGED <<events, outbox, dbVars>>
  /\ UNCHANGED <<isRecording, isPaused, currentMeetingId, pendingStarts, apiKey, stopReturn,
                 recVars, stopOp, fileVars, tsVars, polls, leftCopies, clockVars, browserVars, zoomVars, now>>

\* transcribeLargeFile, lines 121-155: one pass of the loop. The chunk has been
\* extracted and its request answered with `outcome`; a failure is caught at
\* line 144 and the chunk is skipped. After the last chunk the accumulated text
\* is returned.
chunkDone(m, gotLines, outcome) ==
  /\ pipeline[m].pc = "chunks"
  /\ \E segs \in (IF gotLines THEN SegmentStarts(ChunkLength(m, pipeline[m].chunk))
                  ELSE {<< >>}) :
       /\ requests' = [requests EXCEPT ![m] =
             Append(@, [Answered("chunk", outcome) EXCEPT !.chunk = pipeline[m].chunk,
                                                          !.segs = segs])]
       /\ largeFile' = [largeFile EXCEPT ![m] =
             [fullTranscript |-> @.fullTranscript \o
                [k \in 1..Len(segs) |-> TranscriptLine(pipeline[m].chunk, segs[k], @.timeOffset)],
              timeOffset |-> @.timeOffset + ChunkDuration]]
  /\ LET text == IF gotLines THEN "long" ELSE pipeline[m].text
         last == pipeline[m].chunk + 1 >= pipeline[m].numChunks
     IN IF last
        THEN transcriptReturned(m, text = "long")
        ELSE /\ pipeline' = [pipeline EXCEPT ![m].chunk = @ + 1, ![m].text = text]
             /\ UNCHANGED <<events, outbox, dbVars>>
  /\ UNCHANGED <<isRecording, isPaused, currentMeetingId, pendingStarts, apiKey, stopReturn,
                 recVars, stopOp, fileVars, tsVars, polls, leftCopies, clockVars, browserVars, zoomVars, now>>

\* The chunk was transcribed (gotLines) or its extraction or request failed.
LargeChunk(m, gotLines) == chunkDone(m, gotLines, IF gotLines THEN "long" ELSE "error")

\* The chunk's request was answered 401.
LargeChunkRejected(m) == chunkDone(m, FALSE, "auth")

\* A processRecording whose inner catch hands a summary error to the outer one.
SummaryReturnsFatal(m, ok) ==
  /\ pipeline[m].pc = "summary"
  /\ updateMeeting(m, IF ok THEN "completed" ELSE "failed")
  /\ Send(IF ok THEN "meeting-completed" ELSE "processing-error", m)
  /\ pipeline' = [pipeline EXCEPT ![m].pc = "done"]
  /\ UNCHANGED <<isRecording, isPaused, currentMeetingId, pendingStarts, apiKey, stopReturn,
                 recVars, stopOp, fileVars, tsVars, polls, leftCopies, requests, largeFile, clockVars, browserVars, zoomVars, now>>

\* processRecording, lines 449-470: generateSummary has returned or thrown;
\* either way the record is 'completed'.
SummaryReturns(m, ok) ==
  /\ pipeline[m].pc = "summary"
  /\ updateMeeting(m, "completed")
  /\ Send("meeting-completed", m)
  /\ pipeline' = [pipeline EXCEPT ![m].pc = "done"]
  /\ UNCHANGED <<isRecording, isPaused, currentMeetingId, pendingStarts, apiKey, stopReturn,
                 recVars, stopOp, fileVars, tsVars, polls, leftCopies, requests, largeFile, clockVars, browserVars, zoomVars, now>>

\* ------------------------------------------------------------ environment
\* The capture process appends to its output file (created on the first write).
SessionGrowth == {0, 5, 300, 900}
CaptureWrites(m) ==
  /\ procState[m] = "alive"
  /\ \E d \in SessionGrowth : d > wav[m] /\ wav' = [wav EXCEPT ![m] = d]
  /\ UNCHANGED <<indexVars, dbVars, recVars, stopOp, webm, tsVars, polls, leftCopies, requests, largeFile, clockVars, browserVars, zoomVars, now>>

\* ipcMain 'audio-chunk': the renderer's MediaRecorder data for a meeting is
\* appended to recordings/{id}.webm.
BrowserChunkBytes == 2 * MinArtifactBytes
AudioChunk(m) ==
  /\ meetings[m] = "recording"
  /\ webm[m] < 0
  /\ webm' = [webm EXCEPT ![m] = BrowserChunkBytes]
  /\ UNCHANGED <<indexVars, dbVars, recVars, stopOp, wav, tsVars, polls, leftCopies, requests, largeFile, clockVars, browserVars, zoomVars, now>>

\* ipcMain 'save-settings' with a key.
SaveSettings ==
  /\ ~apiKey
  /\ apiKey' = TRUE
  /\ UNCHANGED <<isRecording, isPaused, currentMeetingId, pendingStarts, pipeline, events, outbox,
                 stopReturn, dbVars, recVars, stopOp, fileVars, tsVars, polls, leftCopies, requests, largeFile, clockVars, browserVars, zoomVars, now>>

\* The capture process creates its output file.
CaptureCreates(m) ==
  /\ procState[m] = "alive"
  /\ wav[m] < 0
  /\ wav' = [wav EXCEPT ![m] = 0]
  /\ UNCHANGED <<indexVars, dbVars, recVars, stopOp, webm, tsVars, polls, leftCopies, requests, largeFile, clockVars, browserVars, zoomVars, now>>

\* The instants at which a timer of some live schedule is due.
DueTimes ==
  {schedule[m].start + ProbeOneDelay : m \in {k \in Meetings : schedule[k].probe1}}
  \cup {schedule[m].start + ProbeTwoDelay : m \in {k \in Meetings : schedule[k].probe2}}
  \cup {schedule[m].next : m \in {k \in Meetings : schedule[k].interval}}

\* Time passes up to the next timer; meanwhile every live capture process appends
\* that many seconds to the file it has created. A timer that is due fires before
\* time moves on.
Tick ==
  /\ DueTimes # {}
  /\ \A t \in DueTimes : t > now
  /\ Min(DueTimes) <= MaxTime
  /\ now' = Min(DueTimes)
  /\ wav' = [m \in Meetings |->
               IF procState[m] = "alive" /\ wav[m] >= 0
               THEN wav[m] + (Min(DueTimes) - now) ELSE wav[m]]
  /\ pausedTime' = IF isRecording /\ isPaused THEN pausedTime + (Min(DueTimes) - now)
                    ELSE pausedTime
  /\ UNCHANGED <<indexVars, dbVars, recVars, stopOp, webm, tsVars, polls, leftCopies, requests,
                 largeFile, recordingStartTime, notices, reported, updates, browserVars, zoomVars>>

\* --------------------------------------------------------- Zoom detection
\* The dialogs of handleZoomMeetingDetected that can be open at once.
MaxPrompts == 1

\* A handleZoomMeetingDetected without the guard.
handleZoomMeetingDetectedAlways ==
  /\ prompts' = prompts + 1
  /\ zoomLog' = zoomLog \cup {IF isRecording THEN "detected-recording" ELSE "detected-prompt"}

\* handleZoomMeetingDetected, index.js lines 490-505: nothing while recording,
\* otherwise the dialog is shown.
handleZoomMeetingDetected ==
  IF isRecording
  THEN /\ zoomLog' = zoomLog \cup {"detected-recording"}
       /\ UNCHANGED prompts
  ELSE /\ prompts' = prompts + 1
       /\ zoomLog' = zoomLog \cup {"detected-prompt"}

\* ZoomDetector.checkZoomStatus, zoom-detector.js lines 37-41: a meeting is
\* found and none was known; 'meeting-started' is emitted.
ZoomMeetingStarted ==
  /\ ~wasInMeeting
  /\ isRecording \/ prompts < MaxPrompts
  /\ wasInMeeting' = TRUE
  /\ handleZoomMeetingDetected
  /\ UNCHANGED <<indexVars, dbVars, recVars, stopOp, fileVars, tsVars, polls, leftCopies,
                 requests, largeFile, clockVars, browserVars, now>>

\* The dialog is answered, index.js lines 500-504: 'Record Meeting' calls
\* startRecording, which returns at once when a session is recording.
PromptAnswered(record) ==
  /\ prompts > 0
  /\ prompts' = prompts - 1
  /\ pendingStarts' = IF record /\ ~isRecording /\ pendingStarts < MaxStartCalls
                      THEN pendingStarts + 1 ELSE pendingStarts
  /\ UNCHANGED <<isRecording, isPaused, currentMeetingId, pipeline, events, outbox, apiKey,
                 stopReturn, dbVars, recVars, stopOp, fileVars, tsVars, polls, leftCopies,
                 requests, largeFile, clockVars, browserVars, wasInMeeting, zoomLog, now>>

\* handleZoomMeetingEnded, index.js lines 507-511.
handleZoomMeetingEnded ==
  IF isRecording
  THEN stopRecording
  ELSE UNCHANGED <<indexVars, dbVars, recVars, stopOp, fileVars, tsVars, polls, leftCopies,
                   requests, largeFile, clockVars, browserVars, now>>

\* ZoomDetector.checkZoomStatus, zoom-detector.js lines 42-47: no meeting is
\* found and one was known; 'meeting-ended' is emitted.
ZoomMeetingEnded ==
  /\ wasInMeeting
  /\ wasInMeeting' = FALSE
  /\ zoomLog' = zoomLog \cup {IF isRecording THEN "ended-recording" ELSE "ended-idle"}
  /\ handleZoomMeetingEnded
  /\ UNCHANGED prompts

\* ------------------------------------------------------ browser capture
\* The renderer's MediaRecorder before startMediaRecorder.
NoRecorder == [state |-> "inactive", session |-> NoMeeting]

\* A request of the renderer about browser audio: for the session the
\* MediaRecorder was started for, addressed to meeting id `to`.
Request(kind, to) == [kind |-> kind, session |-> mediaRecorder.session, to |-> to]

\* renderer, onRecordingStarted (part_000 lines 776-795) through
\* showRecordingView to startMediaRecorder (lines 378-412): the renderer adopts
\* the id of the message and, when the microphone stream is available (mic),
\* starts a MediaRecorder with 1 s chunks.
OnRecordingStarted(m, mic) ==
  /\ outbox # << >> /\ Head(outbox) = Message("recording-started", m)
  /\ outbox' = Tail(outbox)
  /\ rendererMeetingId' = m
  /\ mediaRecorder' = IF mic THEN [state |-> "recording", session |-> m] ELSE mediaRecorder
  /\ UNCHANGED <<isRecording, isPaused, currentMeetingId, pendingStarts, pipeline, events, apiKey,
                 stopReturn, dbVars, recVars, stopOp, fileVars, tsVars, polls, leftCopies,
                 requests, largeFile, clockVars, audioStreams, conversion, sent, zoomVars, now>>

\* renderer, selectMeeting (part_000 lines 155-156): a click on a meeting of the
\* sidebar makes it the renderer's current meeting.
SelectMeeting(id) ==
  /\ meetings[id] # "absent"
  /\ rendererMeetingId # id
  /\ rendererMeetingId' = id
  /\ UNCHANGED <<indexVars, dbVars, recVars, stopOp, fileVars, tsVars, polls, leftCopies,
                 requests, largeFile, clockVars, mediaRecorder, audioStreams,
                 conversion, sent, zoomVars, now>>

\* ipcMain 'audio-chunk', index.js lines 622-643: the first chunk for an id
\* opens recordings/{id}.webm anew, every chunk is appended to it.
audioChunk(id) ==
  /\ audioStreams' = audioStreams \cup {id}
  /\ webm' = [webm EXCEPT ![id] = IF id \in audioStreams THEN Min({@ + BrowserChunkBytes,
                                                                  2 * BrowserChunkBytes})
                                   ELSE BrowserChunkBytes]

\* renderer, ondataavailable (part_000 lines 395-404): a chunk is sent under the
\* renderer's current meeting id.
DataAvailable ==
  /\ mediaRecorder.state = "recording"
  /\ rendererMeetingId # NoMeeting
  /\ audioChunk(rendererMeetingId)
  /\ sent' = sent \cup {Request("audio-chunk", rendererMeetingId)}
  /\ UNCHANGED <<indexVars, dbVars, recVars, stopOp, wav, tsVars, polls, leftCopies,
                 requests, largeFile, clockVars, rendererMeetingId, mediaRecorder,
                 conversion, zoomVars, now>>

\* ipcMain 'finish-audio-recording', index.js lines 645-663: with a stream for
\* the id, the stream is ended and removed and ffmpeg is spawned to convert
\* {id}.webm to {id}.wav with -y; without one the request fails.
finishAudioRecording(id) ==
  IF id \in audioStreams
  THEN /\ audioStreams' = audioStreams \ {id}
       /\ conversion' = [conversion EXCEPT ![id] = "spawned"]
  ELSE UNCHANGED <<audioStreams, conversion>>

\* renderer, stopAudioVisualization (part_000 lines 442-464): an active
\* MediaRecorder is stopped and, in onstop, the stream of the renderer's
\* current meeting id is finished.
stopAudioVisualization ==
  IF mediaRecorder.state = "recording"
  THEN /\ mediaRecorder' = [mediaRecorder EXCEPT !.state = "inactive"]
       /\ IF rendererMeetingId # NoMeeting
          THEN /\ finishAudioRecording(rendererMeetingId)
               /\ sent' = sent \cup {Request("finish-audio-recording", rendererMeetingId)}
          ELSE UNCHANGED <<audioStreams, conversion, sent>>
  ELSE UNCHANGED <<mediaRecorder, audioStreams, conversion, sent>>

\* renderer, onRecordingStopped (part_000 lines 797-809).
OnRecordingStopped(m) ==
  /\ outbox # << >> /\ Head(outbox) = Message("recording-stopped", m)
  /\ outbox' = Tail(outbox)
  /\ stopAudioVisualization
  /\ UNCHANGED <<isRecording, isPaused, currentMeetingId, pendingStarts, pipeline, events, apiKey,
                 stopReturn, dbVars, recVars, stopOp, fileVars, tsVars, polls, leftCopies,
                 requests, largeFile, clockVars, rendererMeetingId, zoomVars, now>>

\* The conversion's ffmpeg opens its output: -y replaces an existing
\* recordings/{id}.wav by an empty file (index.js lines 657-663).
ConversionOpens(id) ==
  /\ conversion[id] = "spawned"
  /\ conversion' = [conversion EXCEPT ![id] = "writing"]
  /\ wav' = [wav EXCEPT ![id] = 0]
  /\ UNCHANGED <<indexVars, dbVars, recVars, stopOp, webm, tsVars, polls, leftCopies,
                 requests, largeFile, clockVars, rendererMeetingId, mediaRecorder,
                 audioStreams, sent, zoomVars, now>>

\* The seconds of audio of a converted browser recording.
ConvertedSeconds == 5

\* The conversion's 'close' handler, index.js lines 665-675: on exit code 0 the
\* .wav holds the converted audio and the .webm is unlinked.
ConversionCloses(id, ok) ==
  /\ conversion[id] = "writing"
  /\ conversion' = [conversion EXCEPT ![id] = "none"]
  /\ IF ok
     THEN /\ wav' = [wav EXCEPT ![id] = ConvertedSeconds]
          /\ webm' = [webm EXCEPT ![id] = -1]
     ELSE UNCHANGED <<wav, webm>>
  /\ UNCHANGED <<indexVars, dbVars, recVars, stopOp, tsVars, polls, leftCopies,
                 requests, largeFile, clockVars, rendererMeetingId, mediaRecorder,
                 audioStreams, sent, zoomVars, now>>

\* ------------------------------------------- pause, resume and the timer
\* A message about the paused flag, with the meetingId it carries.
Notice(kind) == [kind |-> kind, meetingId |-> currentMeetingId]

\* A pause handler that also stops the live engine.
PauseRecordingStopsEngine ==
  /\ Len(notices) < MaxNotices
  /\ isPaused' = TRUE
  /\ notices' = Append(notices, Notice("recording-paused"))
  /\ stopRealtime
  /\ UNCHANGED <<isRecording, currentMeetingId, pendingStarts, pipeline, events, outbox, apiKey,
                 stopReturn, dbVars, recVars, stopOp, fileVars, leftCopies, requests, largeFile,
                 recordingStartTime, pausedTime, reported, updates, browserVars, zoomVars, now>>

\* ipcMain 'pause-recording', lines 585-591: the flag is set and the message
\* sent, whether or not a session is active.
PauseRecording ==
  /\ Len(notices) < MaxNotices
  /\ isPaused' = TRUE
  /\ notices' = Append(notices, Notice("recording-paused"))
  /\ UNCHANGED <<isRecording, currentMeetingId, pendingStarts, pipeline, events, outbox, apiKey,
                 stopReturn, dbVars, recVars, stopOp, fileVars, tsVars, polls, leftCopies,
                 requests, largeFile, recordingStartTime, pausedTime, reported, updates, browserVars, zoomVars, now>>

\* ipcMain 'resume-recording', lines 593-599.
ResumeRecording ==
  /\ Len(notices) < MaxNotices
  /\ isPaused' = FALSE
  /\ notices' = Append(notices, Notice("recording-resumed"))
  /\ UNCHANGED <<isRecording, currentMeetingId, pendingStarts, pipeline, events, outbox, apiKey,
                 stopReturn, dbVars, recVars, stopOp, fileVars, tsVars, polls, leftCopies,
                 requests, largeFile, recordingStartTime, pausedTime, reported, updates, browserVars, zoomVars, now>>

\* The elapsed time as lines 271 and 606 compute it.
Elapsed == IF recordingStartTime # NoTime THEN now - recordingStartTime ELSE 0

Report(via, elapsed, at) ==
  [via |-> via, elapsed |-> elapsed,
   wall |-> IF recordingStartTime # NoTime THEN at - recordingStartTime ELSE 0,
   paused |-> IF isRecording /\ isPaused THEN pausedTime + (at - now) ELSE pausedTime]

\* recordingTimer, lines 267-275: the 1 s interval set by startRecording and
\* cleared by stopRecording. One second passes (every live capture process
\* appends it to its file) and the callback sends timer-update.
RecordingTimer ==
  /\ isRecording /\ recordingStartTime # NoTime
  /\ now + TimerInterval <= MaxTime
  /\ \A t \in DueTimes : t > now
  /\ now' = now + TimerInterval
  /\ wav' = [m \in Meetings |->
               IF procState[m] = "alive" /\ wav[m] >= 0 THEN wav[m] + TimerInterval ELSE wav[m]]
  /\ pausedTime' = IF isPaused THEN pausedTime + TimerInterval ELSE pausedTime
  /\ reported' = Report("timer-update", now' - recordingStartTime, now')
  /\ UNCHANGED <<indexVars, dbVars, recVars, stopOp, webm, tsVars, polls, leftCopies, requests,
                 largeFile, recordingStartTime, notices, updates, browserVars, zoomVars>>

\* ipcMain 'get-recording-status', lines 601-608.
GetRecordingStatus ==
  /\ reported' = Report("get-recording-status", Elapsed, now)
  /\ UNCHANGED <<indexVars, dbVars, recVars, stopOp, fileVars, tsVars, polls, leftCopies,
                 requests, largeFile, recordingStartTime, pausedTime, notices, updates, browserVars, zoomVars, now>>

\* ---------------------------------------------------------- specification
InitCommon ==
  /\ isRecording = FALSE /\ isPaused = FALSE /\ currentMeetingId = NoMeeting
  /\ stopReturn = "none"
  /\ pendingStarts = 0
  /\ pipeline = [m \in Meetings |-> IdlePipeline]
  /\ events = [m \in Meetings |-> << >>]
  /\ apiKey \in BOOLEAN
  /\ meetings = [m \in Meetings |-> "absent"]
  /\ transcript = [m \in Meetings |-> "none"]
  /\ recording = FALSE /\ process = NoMeeting /\ outputPath = NoMeeting
  /\ procState = [m \in Meetings |-> "none"]
  /\ stopOp = NoStop
  /\ wav = [m \in Meetings |-> -1]
  /\ webm = [m \in Meetings |-> -1]
  /\ realtimeActive = FALSE /\ realtimeInterval = NoMeeting
  /\ transcriptBuffer = << >> /\ lastProcessedDuration = 0
  /\ tsCurrentMeetingId = NoMeeting
  /\ schedule = [m \in Meetings |-> IdleSchedule]
  /\ polls = << >>
  /\ leftCopies = 0
  /\ requests = [m \in Meetings |-> << >>]
  /\ largeFile = [m \in Meetings |-> NoLargeFile]
  /\ recordingStartTime = NoTime /\ pausedTime = 0
  /\ notices = << >> /\ reported = NoReport
  /\ updates = [m \in Meetings |-> << >>]
  /\ rendererMeetingId = NoMeeting /\ mediaRecorder = NoRecorder
  /\ outbox = << >>
  /\ audioStreams = {} /\ conversion = [m \in Meetings |-> "none"]
  /\ sent = {}
  /\ wasInMeeting = FALSE /\ prompts = 0 /\ zoomLog = {}
  /\ now = 0
  /\ submits = << >>

\* The session boundary: start and stop requests, the capture stop, the
\* scheduling of processRecording.
Init == InitCommon

Boundary ==
  \/ StartCall
  \/ StartNoop
  \/ StartDenied
  \/ \E spawned \in BOOLEAN : StartContinue(spawned)
  \/ StopCall
  \/ StopNoop
  \/ \E m \in Meetings : StopResolvesOnClose(m)
  \/ \E m \in Meetings : StopResolvesOnTimeout(m)
  \/ \E m \in Meetings : CaptureWrites(m)
  \/ SaveSettings

Next == Boundary

Spec == Init /\ [][Next]_vars

\* One session from its start to its terminal status: the stop request, the
\* capture stop and processRecording with every outcome of its external calls.
\* The initial states are those StartContinue leaves for a first session.
InitProcess ==
  /\ isRecording = TRUE /\ isPaused = FALSE /\ currentMeetingId = 1
  /\ stopReturn = "none"
  /\ pendingStarts = 0
  /\ pipeline = [m \in Meetings |-> IdlePipeline]
  /\ events = [m \in Meetings |-> IF m = 1 THEN <<"recording-started">> ELSE << >>]
  /\ apiKey \in BOOLEAN
  /\ meetings = [m \in Meetings |-> IF m = 1 THEN "recording" ELSE "absent"]
  /\ transcript = [m \in Meetings |-> "none"]
  /\ recording \in BOOLEAN /\ process = 1 /\ outputPath = 1
  /\ procState = [m \in Meetings |-> IF m = 1 THEN (IF recording THEN "alive" ELSE "exited")
                                     ELSE "none"]
  /\ stopOp = NoStop
  /\ wav = [m \in Meetings |-> -1]
  /\ webm = [m \in Meetings |-> -1]
  /\ realtimeActive = apiKey
  /\ realtimeInterval = IF apiKey THEN 1 ELSE NoMeeting
  /\ transcriptBuffer = << >> /\ lastProcessedDuration = 0
  /\ tsCurrentMeetingId = IF apiKey THEN 1 ELSE NoMeeting
  /\ schedule = [m \in Meetings |->
                   IF m = 1 /\ apiKey
                   THEN [interval |-> TRUE, next |-> ProcessInterval,
                         probe1 |-> TRUE, probe2 |-> TRUE, start |-> 0]
                   ELSE IdleSchedule]
  /\ polls = << >>
  /\ leftCopies = 0
  /\ requests = [m \in Meetings |-> << >>]
  /\ largeFile = [m \in Meetings |-> NoLargeFile]
  /\ recordingStartTime = 0 /\ pausedTime = 0
  /\ notices = << >> /\ reported = NoReport
  /\ updates = [m \in Meetings |-> IF m = 1 THEN <<Placeholder(apiKey)>> ELSE << >>]
  /\ rendererMeetingId = NoMeeting /\ mediaRecorder = NoRecorder
  /\ outbox = <<Message("recording-started", 1)>>
  /\ audioStreams = {} /\ conversion = [m \in Meetings |-> "none"]
  /\ sent = {}
  /\ wasInMeeting = FALSE /\ prompts = 0 /\ zoomLog = {}
  /\ now = 0
  /\ submits = << >>

PipelineStep(m) ==
  \/ StopResolvesOnClose(m)
  \/ StopResolvesOnTimeout(m)
  \/ ProcessRecording(m)
  \/ ProcessAfterWait(m)
  \/ \E o \in {"long", "short", "auth", "rate", "error"} : TranscribeResponse(m, o)
  \/ \E ok \in BOOLEAN : LargeProbe(m, ok)
  \/ \E got \in BOOLEAN : LargeChunk(m, got)
  \/ LargeChunkRejected(m)
  \/ \E ok \in BOOLEAN : SummaryReturns(m, ok)

NextProcess ==
  \/ StopCall
  \/ StopNoop
  \/ \E m \in Meetings : PipelineStep(m)
  \/ \E m \in Meetings : CaptureWrites(m)
  \/ \E m \in Meetings : AudioChunk(m)
  \/ SaveSettings

SpecProcess == InitProcess /\ [][NextProcess]_vars

\* Timers fire and every external call returns or throws: each pending step of a
\* session's pipeline is eventually taken.
FairSpecProcess == SpecProcess /\ \A m \in Meetings : WF_vars(PipelineStep(m))

\* One AudioRecorder.stop() call on the recorder of a started session, with its
\* timers and a capture process that may close at any time or never.
NextStop ==
  \/ RecorderStop
  \/ SigintTimer
  \/ ProcCloses
  \/ \E m \in Meetings : ProcCrashes(m)
  \/ FlushTimer
  \/ TimeoutTimer
  \/ StopTick
  \/ \E m \in Meetings : CaptureWrites(m)

SpecStop == InitProcess /\ [][NextStop]_vars

\* The live engine of one session: from the moment startRecording has returned,
\* the timers of startRealtime fire and poll cycles run through their awaits
\* until, at any point, the session is stopped.
InitLive == InitProcess /\ apiKey /\ recording

NextLive ==
  \/ StopCall
  \/ \E m \in Meetings : StopResolvesOnClose(m)
  \/ \E m \in Meetings : CaptureCreates(m)
  \/ Tick
  \/ \E m \in Meetings : FireProbe1(m)
  \/ \E m \in Meetings : FireProbe2(m)
  \/ \E m \in Meetings : FireInterval(m)
  \/ \E i \in 1..MaxPolls, ok \in BOOLEAN : CopyDone(i, ok)
  \/ \E i \in 1..MaxPolls : CopyAborted(i)
  \/ \E i \in 1..MaxPolls, ok \in BOOLEAN : ProbeDone(i, ok)
  \/ \E i \in 1..MaxPolls, ok \in BOOLEAN : ExtractDone(i, ok)
  \/ \E i \in 1..MaxPolls : SubmitFails(i)
  \/ \E i \in 1..MaxPolls, raw \in Responses : SubmitDone(i, raw)

SpecLive == InitLive /\ [][NextLive]_vars

\* Sessions following one another: the first is stopped, the next is started,
\* while the timers of every startRealtime call run on. The cycles are cut short
\* at their copy step.
NextRestart ==
  \/ StartCall
  \/ \E spawned \in BOOLEAN : StartContinue(spawned)
  \/ StopCall
  \/ \E m \in Meetings : StopResolvesOnClose(m)
  \/ \E m \in Meetings : CaptureCreates(m)
  \/ Tick
  \/ \E m \in Meetings : FireProbe1(m)
  \/ \E m \in Meetings : FireProbe2(m)
  \/ \E m \in Meetings : FireInterval(m)
  \/ \E i \in 1..MaxPolls : CopyDone(i, FALSE)

SpecRestart == InitLive /\ [][NextRestart]_vars

\* One session in which the capture process may also exit on its own. The
\* program's own steps are fair; the user's stop request is not.
NextCapture ==
  \/ NextProcess
  \/ \E m \in Meetings : ProcCrashes(m)

FairSpecCapture ==
  InitProcess /\ [][NextCapture]_vars /\ \A m \in Meetings : WF_vars(PipelineStep(m))

\* The chunked final transcription on its own: processRecording has found an
\* artifact over 25 MB and transcribeFile has handed it to transcribeLargeFile.
LargeDurations == {300, 600, 601, 1800, 2400}

InitChunked ==
  /\ isRecording = FALSE /\ isPaused = FALSE /\ currentMeetingId = NoMeeting
  /\ stopReturn = "id"
  /\ pendingStarts = 0
  /\ pipeline = [m \in Meetings |->
        IF m = 1 THEN [IdlePipeline EXCEPT !.pc = "largeProbe", !.audioPath = WavPath(1),
                                           !.attempt = 1, !.stops = 1, !.runs = 1,
                                           !.stop = "resolved"]
        ELSE IdlePipeline]
  /\ events = [m \in Meetings |->
        IF m = 1 THEN <<"recording-started", "recording-stopped", "processing-started">>
        ELSE << >>]
  /\ apiKey = TRUE
  /\ meetings = [m \in Meetings |-> IF m = 1 THEN "processing" ELSE "absent"]
  /\ transcript = [m \in Meetings |-> "none"]
  /\ recording = FALSE /\ process = NoMeeting /\ outputPath = 1
  /\ procState = [m \in Meetings |-> IF m = 1 THEN "exited" ELSE "none"]
  /\ stopOp = NoStop
  /\ wav \in {[m \in Meetings |-> IF m = 1 THEN d ELSE -1] : d \in LargeDurations}
  /\ webm = [m \in Meetings |-> -1]
  /\ realtimeActive = FALSE /\ realtimeInterval = NoMeeting
  /\ transcriptBuffer = << >> /\ lastProcessedDuration = 0
  /\ tsCurrentMeetingId = NoMeeting
  /\ schedule = [m \in Meetings |-> IdleSchedule]
  /\ polls = << >>
  /\ leftCopies = 0
  /\ requests = [m \in Meetings |-> << >>]
  /\ largeFile = [m \in Meetings |-> NoLargeFile]
  /\ recordingStartTime = NoTime /\ pausedTime = 0
  /\ notices = << >> /\ reported = NoReport
  /\ updates = [m \in Meetings |-> IF m = 1 THEN <<Placeholder(apiKey)>> ELSE << >>]
  /\ rendererMeetingId = NoMeeting /\ mediaRecorder = NoRecorder
  /\ outbox = <<Message("recording-started", 1), Message("recording-stopped", 1)>>
  /\ audioStreams = {} /\ conversion = [m \in Meetings |-> "none"]
  /\ sent = {}
  /\ wasInMeeting = FALSE /\ prompts = 0 /\ zoomLog = {}
  /\ now = 0
  /\ submits = << >>

NextChunked ==
  \/ \E m \in Meetings, ok \in BOOLEAN : LargeProbe(m, ok)
  \/ \E m \in Meetings, got \in BOOLEAN : LargeChunk(m, got)
  \/ \E m \in Meetings : LargeChunkRejected(m)
  \/ \E m \in Meetings, ok \in BOOLEAN : SummaryReturns(m, ok)

SpecChunked == InitChunked /\ [][NextChunked]_vars

\* One session with its pause and resume requests, its 1 s display timer and its
\* status queries, while the timers of the live engine run and until the
\* session is stopped. The poll cycles are cut short at their copy step.
NextPause ==
  \/ PauseRecording
  \/ ResumeRecording
  \/ RecordingTimer
  \/ GetRecordingStatus
  \/ StopCall
  \/ \E m \in Meetings : StopResolvesOnClose(m)
  \/ \E m \in Meetings : CaptureCreates(m)
  \/ \E m \in Meetings : FireProbe1(m)
  \/ \E m \in Meetings : FireProbe2(m)
  \/ \E m \in Meetings : FireInterval(m)
  \/ \E i \in 1..MaxPolls : CopyDone(i, FALSE)

SpecPause == InitLive /\ [][NextPause]_vars

\* Sessions following one another with their live text: each is started with or
\* without a key, its poll cycles run through to the answer of the speech
\* service, it is stopped, and the next one is started while timers and cycles
\* of the earlier one are still pending.
NextSessions ==
  \/ StartCall
  \/ StartContinue(TRUE)
  \/ StopCall
  \/ \E m \in Meetings : CaptureCreates(m)
  \/ Tick
  \/ \E m \in Meetings : FireProbe1(m)
  \/ \E m \in Meetings : FireProbe2(m)
  \/ \E m \in Meetings : FireInterval(m)
  \/ \E i \in 1..MaxPolls : CopyDone(i, TRUE)
  \/ \E i \in 1..MaxPolls : ProbeDone(i, TRUE)
  \/ \E i \in 1..MaxPolls : ExtractDone(i, TRUE)
  \/ \E i \in 1..MaxPolls, raw \in Responses : SubmitDone(i, raw)

SpecSessions == InitCommon /\ [][NextSessions]_vars

\* Sessions whose start may fail after the record was created, followed by
\* further starts and stops.
NextStartFailure ==
  \/ StartCall
  \/ StartFails(TRUE)
  \/ StartContinue(TRUE)
  \/ StopCall
  \/ \E m \in Meetings : StopResolvesOnClose(m)
  \/ \E m \in Meetings : CaptureCreates(m)

SpecStartFailure == InitCommon /\ [][NextStartFailure]_vars

\* Sessions under Zoom detection: meetings begin and end in Zoom while sessions
\* are started from the prompt or by hand and stopped by hand or by the detector.
NextZoom ==
  \/ StartCall
  \/ StartContinue(TRUE)
  \/ StopCall
  \/ \E m \in Meetings : StopResolvesOnClose(m)
  \/ ZoomMeetingStarted
  \/ ZoomMeetingEnded
  \/ \E record \in BOOLEAN : PromptAnswered(record)

SpecZoom == InitCommon /\ [][NextZoom]_vars

\* Sessions with browser capture: the renderer follows the lifecycle messages,
\* records through its MediaRecorder while the user may select other meetings,
\* and finishes the stream when the session stops, while the capture process
\* writes the .wav.
NextBrowser ==
  \/ StartCall
  \/ StartContinue(TRUE)
  \/ StopCall
  \/ \E m \in Meetings : StopResolvesOnClose(m)
  \/ \E m \in Meetings : CaptureWrites(m)
  \/ \E m \in Meetings, mic \in BOOLEAN : OnRecordingStarted(m, mic)
  \/ \E m \in Meetings : SelectMeeting(m)
  \/ DataAvailable
  \/ \E m \in Meetings : OnRecordingStopped(m)
  \/ \E m \in Meetings : ConversionOpens(m)
  \/ \E m \in Meetings, ok \in BOOLEAN : ConversionCloses(m, ok)

SpecBrowser == InitCommon /\ [][NextBrowser]_vars

\* ------------------------------------------------------------------ claims
\* A session is active from its creation until stopRecording is entered for it.
ActiveSessions == {m \in Meetings : meetings[m] = "recording" /\ pipeline[m].stops = 0}
LiveSchedules == {m \in Meetings : schedule[m].interval}

\* C1: whatever the interleaving of start requests, at most one session is
\* active and at most one live-poll interval is installed.
C1_AtMostOneSession ==
  /\ Cardinality(ActiveSessions) <= 1
  /\ Cardinality(LiveSchedules) <= 1

\* C2: however often stopRecording is called for a session, it passes the guard
\* once: one 'recording-stopped', one 'processing-started', one scheduled
\* processRecording run, and the record goes to 'processing' only with that
\* run; a further call returns null.
C2_StopIdempotent ==
  \A m \in Meetings :
    /\ pipeline[m].stops <= 1
    /\ pipeline[m].runs <= pipeline[m].stops
    /\ CountEvents("recording-stopped", m) = pipeline[m].runs
    /\ CountEvents("processing-started", m) = pipeline[m].runs
    /\ (meetings[m] = "processing" => pipeline[m].runs = 1)
    /\ (pipeline[m].stops = 0 => meetings[m] \in {"absent", "recording"})

\* A second stopRecording call has returned null while the first is still
\* awaiting AudioRecorder.stop().
C2_Witness ==
  \E m \in Meetings :
    /\ pipeline[m].pc = "awaitStop"
    /\ pipeline[m].stops = 1
    /\ stopReturn = "null"

Terminal(m) == meetings[m] \in {"completed", "failed"}

\* C3: every session for which stopRecording has been called eventually has
\* the persisted status 'completed' or 'failed', and keeps it.
C3_ReachesTerminal ==
  \A m \in Meetings : [](pipeline[m].stops > 0 => <>[]Terminal(m))

\* A stopped session has ended 'completed' after the third transcription request.
C3_Witness ==
  \E m \in Meetings :
    /\ pipeline[m].stops = 1
    /\ pipeline[m].attempt = MaxAttempts
    /\ meetings[m] = "completed"

\* C4: AudioRecorder.stop() resolves once, and no later than its 5 s fallback:
\* a pending promise has not outlived the fallback timer; called on a recorder
\* that is not recording it has resolved null at once.
C4_StopResolvesOnce ==
  /\ stopOp.resolutions <= 1
  /\ (stopOp.state = "resolved" <=> stopOp.resolutions = 1)
  /\ (stopOp.state = "pending" => stopOp.elapsed <= StopTimeout /\ ~stopOp.timeout)
  /\ (stopOp.state # "none" /\ ~stopOp.live =>
        stopOp.state = "resolved" /\ stopOp.result = NoPath /\ stopOp.elapsed = 0)
  /\ (stopOp.via = "timeout" /\ stopOp.result # NoPath => FileExists(stopOp.result))

\* The capture process never emitted 'close' and the fallback resolved the
\* promise at 5 s.
C4_Witness ==
  /\ stopOp.state = "resolved" /\ stopOp.via = "timeout"
  /\ ~stopOp.closed /\ stopOp.sigint
  /\ procState[stopOp.proc] = "alive"
  /\ stopOp.elapsed = StopTimeout

\* The polls in flight against the artifact of meeting m.
InFlight(m) == {i \in 1..Len(polls) : polls[i].art = m}

\* C5: at most one processRealtimeChunk execution is in flight for a session; a
\* tick that fires while a poll is still awaiting does not start a concurrent one.
C5_OnePollInFlight == \A m \in Meetings : Cardinality(InFlight(m)) <= 1

\* C6: between startRealtime and stopRealtime the cursor never takes a value
\* smaller than one it held earlier.
C6_CursorMonotonic ==
  [][(realtimeActive /\ realtimeActive') => lastProcessedDuration' >= lastProcessedDuration]_vars

\* C7: whenever the cursor is advanced, its new value does not exceed the true
\* duration of the artifact at the time it was read.
C7_CursorWithinArtifact ==
  \A k \in 1..Len(submits) : submits[k].to <= submits[k].read

SameSession(i, j) ==
  /\ submits[i].art = submits[j].art
  /\ submits[i].live /\ submits[j].live

\* C8: the regions [cursor, duration) of any two successful submissions of one
\* session do not overlap.
C8_NoRegionTwice ==
  \A i, j \in 1..Len(submits) :
    (i < j /\ SameSession(i, j)) =>
      \/ submits[i].to <= submits[j].from
      \/ submits[j].to <= submits[i].from

IsPrefix(a, b) == Len(a) <= Len(b) /\ SubSeq(b, 1, Len(a)) = a

\* C10: when update A is delivered before update B in one session, A's region
\* ends no later than B's begins, and B's text follows A's text in the buffer.
C10_DeliveredInRegionOrder ==
  \A i, j \in 1..Len(submits) :
    (i < j /\ SameSession(i, j) /\ submits[i].delivered /\ submits[j].delivered) =>
      /\ submits[i].to <= submits[j].from
      /\ IsPrefix(submits[i].buffer \o <<" ">>, submits[j].buffer)

\* The raw answers of the first n submissions joined by single spaces.
RECURSIVE JoinRaw(_)
JoinRaw(n) ==
  IF n = 0 THEN << >>
  ELSE IF n = 1 THEN submits[1].raw
  ELSE JoinRaw(n - 1) \o <<" ">> \o submits[n].raw

\* The same with every answer trimmed of leading and trailing whitespace.
RECURSIVE JoinTrimmed(_)
JoinTrimmed(n) ==
  IF n = 0 THEN << >>
  ELSE IF n = 1 THEN Trim(submits[1].raw)
  ELSE JoinTrimmed(n - 1) \o <<" ">> \o Trim(submits[n].raw)

\* The session is live and every submission so far came from a cycle that ran
\* with no other cycle in flight.
OneAfterAnother ==
  /\ realtimeActive
  /\ submits # << >>
  /\ \A k \in 1..Len(submits) : submits[k].serial /\ submits[k].live

\* C9 as stated: after N cycles run one after another, each receiving non-empty
\* text, the buffer is the N returned texts joined by single spaces and the
\* cursor is the N-th snapshot's duration.
C9_BufferIsJoinedTexts ==
  (OneAfterAnother /\ \A k \in 1..Len(submits) : submits[k].raw # << >>) =>
    /\ transcriptBuffer = JoinRaw(Len(submits))
    /\ lastProcessedDuration = submits[Len(submits)].to

\* C9, amended: after N cycles run one after another, each receiving text that
\* is non-empty once trimmed, the buffer is the N returned texts, each trimmed of
\* leading and trailing whitespace, joined by single spaces in cycle order, and
\* the cursor is the duration measured for the N-th snapshot.
C9_BufferIsJoinedTrimmedTexts ==
  (OneAfterAnother /\ \A k \in 1..Len(submits) : Trim(submits[k].raw) # << >>) =>
    /\ transcriptBuffer = JoinTrimmed(Len(submits))
    /\ lastProcessedDuration =
         getAudioDuration(submits[Len(submits)].read, submits[Len(submits)].probeOk)

C9_Witness ==
  /\ OneAfterAnother
  /\ Len(submits) = 2
  /\ \A k \in 1..2 : Trim(submits[k].raw) # << >>
  /\ submits[2].raw # Trim(submits[2].raw)
  /\ transcriptBuffer = <<"a", " ", "b">>

\* C11: the cursor and the live buffer change only on a successful submission;
\* a cycle that is skipped or whose copy, extraction or submission fails leaves
\* both as they were, so the next cycle starts from the same cursor.
C11_SkipLeavesCursorAndBuffer ==
  [][(submits' = submits /\ realtimeActive' = realtimeActive) =>
       (lastProcessedDuration' = lastProcessedDuration /\ transcriptBuffer' = transcriptBuffer)]_vars

\* The 12 s cycle started on a 12 s artifact after one delivered update and
\* ended without a submission: cursor and buffer are those of the first update.
C11_Witness ==
  /\ realtimeActive /\ now = ProcessInterval /\ wav[1] = ProcessInterval
  /\ schedule[1].next = 2 * ProcessInterval
  /\ polls = << >>
  /\ Len(submits) = 1 /\ submits[1].to = ProbeOneDelay /\ submits[1].delivered
  /\ lastProcessedDuration = ProbeOneDelay /\ transcriptBuffer = submits[1].buffer

\* The temporary files in the temp directory: copies left by ended cycles, the
\* copy of every cycle past its copy step, the chunk of every cycle submitting.
TempFiles ==
  leftCopies
  + Cardinality({i \in 1..Len(polls) : polls[i].stage \in {"probe", "extract"}})
  + Cardinality({i \in 1..Len(polls) : polls[i].chunkFile})

\* C12: a cycle that has ended, on whatever exit path, has left no temporary
\* copy or chunk file behind; and once stopRealtime has run, no temporary file
\* of the session is in the temp directory.
C12_NoTempFilesLeft ==
  /\ leftCopies = 0
  /\ ~realtimeActive => TempFiles = 0

\* C13: once stopRealtime has been called for a session, no timer of that
\* session's schedule (interval, 5 s probe, 10 s probe) runs processRealtimeChunk,
\* also when a new session has been started before the timer expires.
C13_NoPollAfterStop == \A i \in 1..Len(polls) : ~polls[i].stale

\* C14: from the return of stopRealtime until the next startRealtime the cursor
\* is 0 and the live buffer is empty, also when a cycle was in flight at the stop.
C14_ClearedAfterStop ==
  ~realtimeActive => (lastProcessedDuration = 0 /\ transcriptBuffer = << >>)

\* The session is Recording and its capture process, once running, has exited.
CaptureEndedEarly ==
  isRecording /\ recording /\ process # NoMeeting /\ procState[process] = "exited"

\* C15: when the capture process exits on its own while the session is
\* Recording, the session leaves Recording (isRecording becomes false) without
\* a user stop request.
C15_CrashStopsSession == [](CaptureEndedEarly => <>~isRecording)

\* The capture subprocesses that are running.
AliveCaptures == {m \in Meetings : procState[m] = "alive"}

\* C16: at most one capture subprocess is alive at any time; the previous
\* session's process has exited before the next session's process is spawned.
C16_OneCaptureProcess == Cardinality(AliveCaptures) <= 1

\* C17: whatever path settles stop() (process close, timeout fallback, no
\* process handle), it returns the artifact path only if the file exists and
\* is larger than 1000 bytes.
C17_StopReturnsUsableArtifact ==
  (stopOp.resolved /\ stopOp.result # NoPath) =>
    (FileExists(stopOp.result) /\ FileBytes(stopOp.result) > MinArtifactBytes)

\* Neither capture tool could be launched for meeting m: the recorder holds the
\* failed handle and is not recording.
NoAudio(m) == process = m /\ ~recording /\ procState[m] = "exited"

SingleRequestPath(m) ==
  requests[m] # << >> /\ \A k \in 1..Len(requests[m]) : requests[m][k].via = "file"

LastOutcome(m) == requests[m][Len(requests[m])].outcome

\* C19: on an artifact within the size limit transcribeFile makes at most 3
\* requests; the first successful one ends the call with no further request;
\* the call throws only after the third failed attempt or on a 401.
C19_BoundedRetry ==
  \A m \in Meetings :
    SingleRequestPath(m) =>
      /\ Len(requests[m]) <= MaxAttempts
      /\ \A k \in 1..(Len(requests[m]) - 1) : requests[m][k].outcome \in {"rate", "error"}
      /\ LastOutcome(m) \in {"long", "short", "auth"} => pipeline[m].pc # "transcribe"
      /\ LastOutcome(m) = "long" => pipeline[m].pc \in {"summary", "done"}
      /\ (LastOutcome(m) \in {"rate", "error"} /\ Len(requests[m]) < MaxAttempts) =>
           (pipeline[m].pc = "transcribe" /\ pipeline[m].attempt = Len(requests[m]) + 1)
      /\ (LastOutcome(m) \in {"rate", "error"} /\ Len(requests[m]) = MaxAttempts) =>
           (pipeline[m].pc = "done" /\ meetings[m] = "failed")

\* Two failed requests, then a transcript on the third.
C19_Witness ==
  \E m \in Meetings :
    /\ SingleRequestPath(m) /\ Len(requests[m]) = MaxAttempts
    /\ requests[m][1].outcome = "rate" /\ requests[m][2].outcome = "error"
    /\ LastOutcome(m) = "long" /\ pipeline[m].pc = "summary"

\* C20: once the speech service has answered a request of the final
\* transcription with an authentication error, no further request is made, on
\* the single-request path and on the chunked path.
C20_AuthEndsRequests ==
  \A m \in Meetings :
    \A k \in 1..(Len(requests[m]) - 1) : requests[m][k].outcome # "auth"

\* The requests made for chunk c of meeting m's artifact.
ChunkRequests(m, c) ==
  {k \in 1..Len(requests[m]) : requests[m][k].via = "chunk" /\ requests[m][k].chunk = c}

\* The chunks of meeting m the loop of transcribeLargeFile has left behind.
ChunksPassed(m) ==
  IF pipeline[m].pc = "chunks" THEN 0..(pipeline[m].chunk - 1)
  ELSE {requests[m][k].chunk : k \in {j \in 1..Len(requests[m]) : requests[m][j].via = "chunk"}}

\* C21: on the chunked path a chunk whose request fails transiently is retried,
\* up to 3 attempts in total, before it is skipped.
C21_ChunkRetried ==
  \A m \in Meetings : \A c \in ChunksPassed(m) :
    (\A k \in ChunkRequests(m, c) : requests[m][k].outcome = "error") =>
      Cardinality(ChunkRequests(m, c)) = MaxAttempts

\* Order of two rendered timestamps <<minutes, seconds>>.
StampLeq(a, b) == a[1] < b[1] \/ (a[1] = b[1] /\ a[2] <= b[2])

\* C22: in the transcript of the chunked path every line of chunk i carries its
\* segment start plus i * chunkDuration, also after skipped chunks, and the
\* timestamps are non-decreasing from line to line across chunk boundaries.
C22_TimestampsNonDecreasing ==
  \A m \in Meetings :
    LET ls == largeFile[m].fullTranscript IN
      /\ \A k \in 1..Len(ls) :
           ls[k].stamp = formatTime(ls[k].start + ls[k].chunk * ChunkDuration)
      /\ \A j, k \in 1..Len(ls) : j < k => StampLeq(ls[j].stamp, ls[k].stamp)

\* Lines of chunks 0 and 2 around a skipped chunk 1.
C22_Witness ==
  \E m \in Meetings :
    LET ls == largeFile[m].fullTranscript IN
      /\ Len(ls) >= 2 /\ ls[1].chunk = 0 /\ ls[Len(ls)].chunk = 2
      /\ \A k \in 1..Len(ls) : ls[k].chunk # 1
      /\ ls[Len(ls)].stamp[1] >= 20

\* C23: an artifact of true duration D is split into ceil(D / 600) chunks,
\* whatever the outcome of the duration probe.
C23_ChunkCountFromTrueDuration ==
  \A m \in Meetings :
    pipeline[m].pc = "chunks" =>
      pipeline[m].numChunks = CeilDiv(wav[pipeline[m].audioPath.id], ChunkDuration)

\* The lines the answered chunk requests 1..n of meeting m put in the transcript,
\* each chunk's segments offset by its index times chunkDuration.
RECURSIVE ExpectedLines(_, _)
ExpectedLines(m, n) ==
  IF n = 0 THEN << >>
  ELSE LET r == requests[m][n] IN
         ExpectedLines(m, n - 1) \o
           (IF r.via = "chunk"
            THEN [k \in 1..Len(r.segs) |->
                    [chunk |-> r.chunk, start |-> r.segs[k],
                     stamp |-> formatTime(r.segs[k] + r.chunk * ChunkDuration)]]
            ELSE << >>)

ChunkedRequests(m) == {k \in 1..Len(requests[m]) : requests[m][k].via = "chunk"}

\* C24: a chunk whose extraction or request fails is skipped without failing
\* the job: the loop goes on through every chunk, transcribeLargeFile returns,
\* and the result holds the lines of every other chunk, in chunk order, with
\* the offsets of their own indexes.
C24_FailedChunkSkipped ==
  \A m \in Meetings :
    /\ largeFile[m].fullTranscript = ExpectedLines(m, Len(requests[m]))
    /\ \A j, k \in ChunkedRequests(m) : j < k => requests[m][j].chunk < requests[m][k].chunk
    /\ pipeline[m].pc = "chunks" => Cardinality(ChunkedRequests(m)) = pipeline[m].chunk
    /\ (pipeline[m].pc \notin {"largeProbe", "chunks"} /\ ChunkedRequests(m) # {}) =>
         /\ Cardinality(ChunkedRequests(m)) = pipeline[m].numChunks
         /\ largeFile[m].fullTranscript # << >> => pipeline[m].text = "long"

\* Chunk 0 failed, a later chunk was transcribed, and the transcript went on
\* to summarization.
C24_Witness ==
  \E m \in Meetings :
    /\ pipeline[m].pc = "summary" /\ pipeline[m].numChunks >= 2
    /\ requests[m][1].via = "chunk" /\ requests[m][1].outcome = "error"
    /\ largeFile[m].fullTranscript # << >>
    /\ largeFile[m].fullTranscript[1].chunk = 1


\* The final transcription of a session came back with a text under 10
\* characters: on the single-request path as the last answer, on the chunked
\* path as a loop that ended without a transcribed chunk.
ShortTranscript(m) ==
  /\ pipeline[m].pc = "done"
  /\ \/ SingleRequestPath(m) /\ Len(requests[m]) > 0 /\ LastOutcome(m) = "short"
     \/ /\ Len(requests[m]) > 0
        /\ \A k \in 1..Len(requests[m]) :
              requests[m][k].via = "chunk" /\ requests[m][k].outcome # "long"
        /\ requests[m][Len(requests[m])].chunk + 1 = pipeline[m].numChunks

\* C25: when the final transcription yields a text shorter than 10 characters
\* the session ends Failed: the persisted status is 'failed', one
\* processing-error message has been sent, the text is not stored as the
\* transcript, and no summary was requested (neither transcript-complete nor
\* meeting-completed was sent, and the pipeline never held a long text).
C25_ShortTranscriptFails ==
  \A m \in Meetings :
    ShortTranscript(m) =>
      /\ meetings[m] = "failed"
      /\ CountEvents("processing-error", m) = 1
      /\ transcript[m] = "none"
      /\ CountEvents("transcript-complete", m) = 0
      /\ CountEvents("meeting-completed", m) = 0
      /\ pipeline[m].text # "long"

C25_Witness ==
  \E m \in Meetings :
    /\ ShortTranscript(m) /\ SingleRequestPath(m)
    /\ meetings[m] = "failed"
    /\ CountEvents("processing-error", m) = 1


\* transcribeFile has returned a text of at least 10 characters to
\* processRecording.
LongTranscript(m) == pipeline[m].text = "long" /\ pipeline[m].pc \in {"summary", "done"}

\* C26: once the final transcription has returned a text of at least 10
\* characters the session ends Completed with that text stored as its
\* transcript, whether generateSummary returns a summary, returns its fallback
\* after three failed attempts, or throws; the status is never 'failed'.
C26_LongTranscriptCompletes ==
  \A m \in Meetings :
    /\ [](LongTranscript(m) =>
            /\ meetings[m] # "failed"
            /\ transcript[m] = "final"
            /\ CountEvents("processing-error", m) = 0)
    /\ LongTranscript(m) ~>
          (meetings[m] = "completed" /\ transcript[m] = "final"
             /\ CountEvents("meeting-completed", m) = 1)

C26_Witness ==
  \E m \in Meetings :
    /\ LongTranscript(m) /\ pipeline[m].pc = "done"
    /\ meetings[m] = "completed" /\ transcript[m] = "final"
    /\ CountEvents("meeting-completed", m) = 1


\* The lifecycle messages of a session, in the order sent (transcript-complete
\* is a progress message, not a lifecycle one).
LifecycleKinds ==
  {"recording-started", "recording-stopped", "processing-started",
   "meeting-completed", "processing-error"}
TerminalKinds == {"meeting-completed", "processing-error"}
IsLifecycle(e) == e \in LifecycleKinds
Lifecycle(m) == SelectSeq(events[m], IsLifecycle)

\* C27: the lifecycle messages of every session come in the order
\* recording-started, recording-stopped, processing-started, then exactly one of
\* meeting-completed or processing-error, after which none follows; and no step
\* of the recording pipeline changes a persisted 'completed' or 'failed'.
C27_LifecycleOrder ==
  /\ [](\A m \in Meetings : \E last \in TerminalKinds :
          IsPrefix(Lifecycle(m), <<"recording-started", "recording-stopped",
                                   "processing-started", last>>))
  /\ [][\A m \in Meetings :
          meetings[m] \in {"completed", "failed"} => meetings'[m] = meetings[m]]_vars
  /\ \A m \in Meetings :
        (CountEvents("processing-started", m) > 0) ~>
          (CountEvents("meeting-completed", m) + CountEvents("processing-error", m) = 1)

C27_Witness ==
  \E m \in Meetings :
    /\ Len(Lifecycle(m)) = 4
    /\ Lifecycle(m)[4] \in TerminalKinds
    /\ meetings[m] \in {"completed", "failed"}
    /\ pipeline[m].pc = "done"


\* processRecording has started for meeting m.
Finalizing(m) ==
  pipeline[m].pc \in {"wait", "transcribe", "largeProbe", "chunks", "summary", "done"}

\* C28: processRecording runs for a session only once stopRealtime() has
\* cancelled the live engine of the session, the promise of AudioRecorder.stop()
\* has resolved (with a path or null), and the 3 s timer set after that has
\* fired: a run begins only from the pending timer, and never while the
\* capture stop is pending.
C28_FinalizeAfterStop ==
  /\ [](\A m \in Meetings :
          Finalizing(m) =>
            /\ pipeline[m].stop = "resolved"
            /\ pipeline[m].stops = 1 /\ pipeline[m].runs = 1
            /\ ~schedule[m].interval
            /\ tsCurrentMeetingId # m
            /\ ~recording)
  /\ [][\A m \in Meetings :
          (pipeline[m].pc # pipeline'[m].pc) =>
            /\ (pipeline[m].pc = "awaitStop" => pipeline'[m].pc = "settle")
            /\ (pipeline'[m].pc \in {"wait", "transcribe", "largeProbe"}
                   => pipeline[m].pc \in {"settle", "wait"})
            /\ (pipeline'[m].pc = "settle" => pipeline'[m].stop = "resolved")]_vars

C28_Witness ==
  \E m \in Meetings :
    /\ pipeline[m].pc = "transcribe"
    /\ pipeline[m].stop = "resolved"
    /\ pipeline[m].audioPath # NoPath
    /\ CountEvents("recording-stopped", m) = 1


\* C29: a pause or resume request changes the paused flag, sends its message for
\* the current meeting id, and changes nothing else: the capture process, the
\* timers and cycles of the live engine, the cursor, the buffer and the session
\* identity stay as they are; and the interval timer of the live engine begins
\* its poll while the session is paused as it does otherwise.
C29_PauseChangesOnlyFlag ==
  /\ [][notices' # notices =>
          /\ \E kind \in {"recording-paused", "recording-resumed"} :
                /\ notices' = Append(notices, [kind |-> kind, meetingId |-> currentMeetingId])
                /\ isPaused' = (kind = "recording-paused")
          /\ UNCHANGED <<isRecording, currentMeetingId, pendingStarts, pipeline, events, outbox, apiKey,
                         stopReturn, dbVars, recVars, stopOp, fileVars, tsVars, polls,
                         leftCopies, requests, largeFile, recordingStartTime, pausedTime,
                         reported, browserVars, zoomVars, now>>]_vars
  /\ [][\A m \in Meetings :
          (/\ isPaused /\ realtimeActive
           /\ schedule[m].interval /\ schedule'[m].next # schedule[m].next
           /\ tsCurrentMeetingId # NoMeeting
           /\ FileExists(WavPath(tsCurrentMeetingId))
           /\ FileBytes(WavPath(tsCurrentMeetingId)) >= MinLiveBytes)
          => Len(polls') = Len(polls) + 1]_vars

C29_Witness ==
  /\ isRecording /\ isPaused
  /\ Len(notices) > 0 /\ notices[Len(notices)].kind = "recording-paused"
  /\ notices[Len(notices)].meetingId = currentMeetingId
  /\ Len(polls) > 0
  /\ now >= ProcessInterval

\* C30: every elapsed time sent with timer-update or returned by
\* get-recording-status equals the wall-clock seconds since the start of the
\* session minus the seconds the session has spent paused.
C30_ElapsedExcludesPauses ==
  reported.via # "none" => reported.elapsed = reported.wall - reported.paused


\* C31: the transcript-update messages of a session begin with exactly one
\* placeholder, the listening text when a key is configured and the
\* not-configured text when none is; every later message of the session is
\* transcript text.
C31_OnePlaceholderFirst ==
  \A m \in Meetings :
    IF meetings[m] = "absent"
    THEN updates[m] = << >>
    ELSE /\ Len(updates[m]) >= 1
         /\ updates[m][1] = Placeholder(apiKey)
         /\ \A k \in 2..Len(updates[m]) : updates[m][k].kind = "text"

C31_Witness ==
  \E m \in Meetings :
    /\ Len(updates[m]) >= 2
    /\ updates[m][1].kind = "listening"
    /\ updates[m][2].kind = "text"


\* processRecording has ended for meeting m and none of its candidate paths
\* (files only grow) holds more than 1000 bytes.
EndedWithoutArtifact(m) ==
  /\ pipeline[m].pc = "done"
  /\ ~Usable(pipeline[m].audioPath)
  /\ ~Usable(WavPath(m))
  /\ ~Usable(WebmPath(m))

\* C32 as stated: a session none of whose candidate artifacts ever exceeds the
\* minimum size ends Failed with the reason 'No audio recorded', after two
\* scans of the candidates and without a request to the speech service.
C32_NoArtifactFails ==
  \A m \in Meetings :
    EndedWithoutArtifact(m) =>
      /\ meetings[m] = "failed"
      /\ pipeline[m].error = "no-audio"
      /\ pipeline[m].checks = 2
      /\ requests[m] = << >>

\* C32, amended: such a session ends Failed without a request to the speech
\* service; when a key is configured the candidates are scanned, the 2 s wait
\* is taken once, they are scanned again and the reason is 'No audio
\* recorded'; when no key is configured the run ends before any scan, with the
\* reason naming the key.
C32_NoArtifactFailsKeyed ==
  \A m \in Meetings :
    EndedWithoutArtifact(m) =>
      /\ meetings[m] = "failed"
      /\ CountEvents("processing-error", m) = 1
      /\ requests[m] = << >>
      /\ \/ pipeline[m].error = "no-audio" /\ pipeline[m].checks = 2
         \/ pipeline[m].error = "no-key" /\ pipeline[m].checks = 0

C32_Witness ==
  \E m \in Meetings :
    /\ EndedWithoutArtifact(m)
    /\ pipeline[m].error = "no-audio" /\ pipeline[m].checks = 2
    /\ meetings[m] = "failed"

\* C33: while a session is recording its artifact recordings/{id}.wav never
\* shrinks or disappears, and once the session's stop has resolved no step
\* changes the artifact, the browser-capture conversion included.
C33_ArtifactStable ==
  [][\A m \in Meetings :
       /\ (isRecording /\ currentMeetingId = m) => wav'[m] >= wav[m]
       /\ pipeline[m].stop = "resolved" => wav'[m] = wav[m]]_vars

\* C39: every audio chunk and every finish request of the renderer is addressed
\* to the session its MediaRecorder was started for, whatever meeting is
\* selected in the sidebar meanwhile.
C39_RequestsAddressSession ==
  \A x \in sent : x.to = x.session

\* C34: when the detector reports the end of the meeting while a session is
\* recording, that session enters the stop path, for the first and only time;
\* when it reports a meeting while a session is recording, no dialog is opened
\* and no session is started or announced.
C34_ZoomWhileRecording ==
  [][/\ (isRecording /\ wasInMeeting /\ ~wasInMeeting') =>
          /\ ~isRecording'
          /\ pipeline[currentMeetingId].stops = 0
          /\ pipeline'[currentMeetingId].stops = 1
     /\ (isRecording /\ ~wasInMeeting /\ wasInMeeting') =>
          /\ prompts' = prompts
          /\ UNCHANGED <<indexVars, dbVars, recVars>>]_vars

C34_Witness ==
  /\ {"ended-recording", "detected-recording"} \subseteq zoomLog
  /\ \E m \in Meetings : pipeline[m].stops = 1

\* The texts of the transcript-text messages sent with meeting id m, in order.
TextsOf(m) ==
  LET ix == {k \in 1..Len(updates[m]) : updates[m][k].kind = "text"}
      RECURSIVE Collect(_)
      Collect(k) == IF k = 0 THEN << >>
                    ELSE Collect(k - 1) \o (IF k \in ix THEN <<updates[m][k].text>> ELSE << >>)
  IN Collect(Len(updates[m]))

\* The text messages of every session grow: each has its predecessor as a prefix.
TextsGrow ==
  \A m \in Meetings :
    \A k \in 1..(Len(TextsOf(m)) - 1) : IsPrefix(TextsOf(m)[k], TextsOf(m)[k + 1])

\* C35: every submission the speech service answered moved the cursor to the
\* snapshot duration and passed the whole buffer to onUpdate once, so the text
\* messages of a session each extend the one before.
C35_SubmissionPublishesBuffer ==
  /\ \A k \in 1..Len(submits) : submits[k].delivered
  /\ Len(submits) > 0 /\ realtimeActive =>
       lastProcessedDuration = submits[Len(submits)].to
  /\ TextsGrow

\* C36: no record ever holds text of the live buffer, and while a session is
\* recording its record holds no transcript at all: the callback of the live
\* engine stores nothing.
C36_LiveNeverPersisted ==
  \A m \in Meetings :
    /\ transcript[m] \notin {"live", "mixed"}
    /\ meetings[m] = "recording" => transcript[m] = "none"

C36_Witness ==
  \E m \in Meetings :
    /\ meetings[m] = "recording" /\ isRecording /\ currentMeetingId = m
    /\ \E k \in 1..Len(updates[m]) : updates[m][k].kind = "text"
    /\ transcript[m] = "none"

\* C37: every transcript-text message carries the id of the session whose
\* artifact the text was transcribed from, and every text appended to the live
\* buffer of a running session was transcribed from that session's artifact by
\* a cycle of that session.
C37_LiveTextStaysInSession ==
  /\ \A m \in Meetings : \A k \in 1..Len(updates[m]) :
        updates[m][k].kind = "text" => updates[m][k].art = m
  /\ \A k \in 1..Len(submits) :
        submits[k].delivered /\ submits[k].session # NoMeeting =>
          submits[k].art = submits[k].session /\ submits[k].cb = submits[k].session

\* A session whose startRecording failed after the record was created: the
\* record exists and recording-started was never sent for it.
FailedStart(m) ==
  meetings[m] # "absent" /\ CountEvents("recording-started", m) = 0

\* C38: after a start that failed past the creation of the record, the record
\* is not 'recording', no recorder and no live engine run while the application
\* is idle, and the recorder of a later session writes that session's artifact.
C38_FailedStartLeavesIdle ==
  \A m \in Meetings :
    FailedStart(m) =>
      /\ meetings[m] # "recording"
      /\ ~isRecording => ~recording /\ ~realtimeActive
      /\ isRecording /\ currentMeetingId > m /\ recording => outputPath = currentMeetingId

\* C40: the paused flag is set only while a session is recording.
C40_PausedImpliesRecording ==
  isPaused => isRecording

====
